---- MODULE Spec2Model ----
(***************************************************************************)
(* A model of the LSM key-value engine of kv-store-design:                 *)
(*   step2/wal.js            WriteAheadLog                                  *)
(*   step3/memtable.js       MemTable (over step3/skiplist.js)              *)
(*   step4/sstable-writer.js SSTableWriter                                  *)
(*   step4/sstable-reader.js SSTableReader                                  *)
(*   step5/lsm-tree.js       LSMTree                                        *)
(* The disk is the pair (walFile, dir); everything else is the state of    *)
(* the one LSMTree instance of the process.                                *)
(***************************************************************************)
EXTENDS Integers, Sequences, FiniteSets, TLC

VARIABLES
    phase,            \* "open": the LSMTree instance is in use; "closed": close() was called;
                      \* "recovered": a new instance, built after a kill inside a write;
                      \* "writer": no engine, a direct caller of the table writer
    callerKeys,       \* the string keys the callers of this run use
    maxLevels,        \* this.maxLevels        (options.maxLevels)
    memtableMaxSize,  \* this.memtableMaxSize  (options.memtableMaxSize)
    level0MaxFiles,   \* this.level0MaxFiles   (options.level0MaxFiles)
    walFile,          \* disk: the records of wal.log, in append order
    dir,              \* disk: the table files, in the order readdirSync lists them
    memtable,         \* this.memtable: [data, currentSizeBytes]
    levels,           \* this.levels: per level, the readers in array order
    sstableCounter,   \* this.sstableCounter
    last,             \* the last call made on the engine and how it ended
    lastOp,           \* per key, the last set/delete that returned: "none", "deleted" or the value
    stream,           \* the entry stream a direct caller of SSTableWriter.write holds
    skipList,         \* the SkipList a direct caller of step3/skiplist.js holds: nodes and pointers
    quiet             \* "no" once a call or a kill happened since the last open; else
                      \* "opened", "closed" (closed before any call), "reopened" (opened after that)

vars == <<phase, callerKeys, maxLevels, memtableMaxSize, level0MaxFiles, walFile, dir, memtable, levels,
          sstableCounter, last, lastOp, stream, skipList, quiet>>

----------------------------------------------------------------------------
(* Bounds of the model *)

\* no write is started once wal.log holds this many records
MaxWalLen == 2
\* no write is started unless both a flush and a compaction can still take a number below this
MaxCounter == 6
\* the longest entry stream a direct caller hands to SSTableWriter.write
MaxStreamLen == 2
\* the longest wal.log an engine is opened on without having written it itself
MaxLogLen == 3

----------------------------------------------------------------------------
(* Keys and values *)

\* the one-letter string keys
Keys == {"B", "a", "b"}
\* the key sets a run draws from: two keys of one letter case, or two of different case
KeySets == {{"a", "b"}, {"B", "a"}}
\* the JavaScript value null, passed where a key is expected
NULL_KEY == "<null>"
AnyKey == Keys \cup {NULL_KEY}

\* typeof key
TypeOf(key) == IF key = NULL_KEY THEN "object" ELSE "string"

\* the values callers store: JSON strings
Values == {"v1", "v2"}

\* MemTable.TOMBSTONE = Symbol('TOMBSTONE'), a symbol of its own
MEM_TOMBSTONE == "Symbol(TOMBSTONE)"
\* TOMBSTONE = Symbol.for('TOMBSTONE'), the registry symbol of the table reader and writer
TOMBSTONE == "Symbol.for(TOMBSTONE)"
\* the JavaScript value undefined
UNDEFINED == "undefined"
\* a key that a Map does not hold (Map.has is false)
NOT_IN_MAP == "<no entry>"

IsSymbol(v) == v \in {MEM_TOMBSTONE, TOMBSTONE}

\* UTF-16 code unit of each one-letter key: what <, <=, > and >= on strings compare
CharCode == ("B" :> 66) @@ ("a" :> 97) @@ ("b" :> 98)
KeyLT(x, y) == CharCode[x] < CharCode[y]
KeyLE(x, y) == CharCode[x] <= CharCode[y]

\* String.prototype.localeCompare under ICU collation: letters first, lower case
\* before upper case of the same letter (a < A < b < B)
CollationRank == ("a" :> 1) @@ ("b" :> 3) @@ ("B" :> 4)
LocaleCompare(x, y) ==
    IF CollationRank[x] < CollationRank[y] THEN -1
    ELSE IF CollationRank[x] > CollationRank[y] THEN 1 ELSE 0

\* JSON.stringify followed by JSON.parse of an object property: a property whose
\* value is a symbol or undefined is left out, and reads back as undefined
JsonRoundTrip(v) == IF IsSymbol(v) \/ v = UNDEFINED THEN UNDEFINED ELSE v

----------------------------------------------------------------------------
(* step3/skiplist.js and step3/memtable.js *)

\* SkipList iteration: the entries in ascending code-unit key order
RECURSIVE SkipListEntries(_, _)
SkipListEntries(data, keys) ==
    IF keys = {} THEN <<>>
    ELSE LET k == CHOOSE x \in keys : \A y \in keys : KeyLE(x, y)
         IN  (IF data[k] = NOT_IN_MAP THEN <<>> ELSE <<[key |-> k, value |-> data[k]]>>)
             \o SkipListEntries(data, keys \ {k})

\* SkipList.get
SkipListGet(data, key) == IF data[key] = NOT_IN_MAP THEN UNDEFINED ELSE data[key]

\* SkipList.range: the entries with startKey <= key <= endKey, ascending
SkipListRange(data, startKey, endKey) ==
    SelectSeq(SkipListEntries(data, Keys),
              LAMBDA e : KeyLE(startKey, e.key) /\ KeyLE(e.key, endKey))

EmptyMemTable == [data |-> [k \in Keys |-> NOT_IN_MAP], currentSizeBytes |-> 0]

\* MemTable._estimateSize, for a string key
EstimateSize(key, value) ==
    Len(key) * 2 + (IF value = MEM_TOMBSTONE THEN 8 ELSE Len(value) * 2) + 64

\* a flush test that fires only above the threshold
ShouldFlushAbove(mt, maxSizeBytes) == mt.currentSizeBytes > maxSizeBytes

\* MemTable.shouldFlush
ShouldFlush(mt, maxSizeBytes) == mt.currentSizeBytes >= maxSizeBytes

\* a set that adds the new entry's size without removing the old entry's
MemTableSetAddingOnly(mt, key, value) ==
    [data |-> [mt.data EXCEPT ![key] = value],
     currentSizeBytes |-> mt.currentSizeBytes + EstimateSize(key, value)]

\* MemTable.set, for a string key: the table after the call
MemTableSet(mt, key, value) ==
    LET entrySize == EstimateSize(key, value)
        existingValue == SkipListGet(mt.data, key)
        removed == IF existingValue # UNDEFINED
                   THEN mt.currentSizeBytes - EstimateSize(key, existingValue)
                   ELSE mt.currentSizeBytes
    IN  [data |-> [mt.data EXCEPT ![key] = value],
         currentSizeBytes |-> removed + entrySize]

\* MemTable.delete
MemTableDelete(mt, key) == MemTableSet(mt, key, MEM_TOMBSTONE)

\* MemTable.get
MemTableGet(mt, key) == SkipListGet(mt.data, key)

\* MemTable.range
MemTableRange(mt, startKey, endKey) == SkipListRange(mt.data, startKey, endKey)

\* MemTable.entries
MemTableEntries(mt) == SkipListEntries(mt.data, Keys)

----------------------------------------------------------------------------
(* step3/skiplist.js, node by node: the head's and every node's forward      *)
(* pointers; a node is named by its key                                       *)

\* this.maxLevel (16 by default): the highest node height drawn
SkipListMaxLevel == 3

NIL == "<nil>"
HEAD == "<head>"
NoNode == [value |-> NOT_IN_MAP, forward |-> <<>>]

\* new SkipList()
EmptySkipList ==
    [level |-> 1, size |-> 0,
     head |-> [i \in 1..SkipListMaxLevel |-> NIL],
     nodes |-> [k \in Keys |-> NoNode]]

\* node.forward[i - 1]
Forward(sl, node, i) == IF node = HEAD THEN sl.head[i] ELSE sl.nodes[node].forward[i]

\* the inner while loop of a search: move right at level i while the next key < key
RECURSIVE Advance(_, _, _, _)
Advance(sl, current, i, key) ==
    LET next == Forward(sl, current, i)
    IN  IF next # NIL /\ KeyLT(next, key) THEN Advance(sl, next, i, key) ELSE current

\* the for loop of a search, from level i down: the update array and the last node
RECURSIVE Descend(_, _, _, _, _)
Descend(sl, key, i, current, update) ==
    IF i = 0 THEN [update |-> update, current |-> current]
    ELSE LET stop == Advance(sl, current, i, key)
         IN  Descend(sl, key, i - 1, stop, [update EXCEPT ![i] = stop])

Search(sl, key) ==
    Descend(sl, key, sl.level, HEAD, [i \in 1..SkipListMaxLevel |-> NIL])

\* node.forward[i - 1] = target, for the head or a node
SetForward(sl, node, i, target) ==
    IF node = HEAD THEN [sl EXCEPT !.head[i] = target]
    ELSE [sl EXCEPT !.nodes[node].forward[i] = target]

\* the splice loop of set: levels i..newLevel of the new node linked after update[i]
RECURSIVE Splice(_, _, _, _, _)
Splice(sl, key, update, i, newLevel) ==
    IF i > newLevel THEN sl
    ELSE Splice(SetForward(sl, update[i], i, key), key, update, i + 1, newLevel)

\* a set whose new node takes over no successor
SkipListNodeSetDroppingSuccessors(sl, key, value, newLevel) ==
    LET found == Search(sl, key)
        current == Forward(sl, found.current, 1)
    IN  IF current # NIL /\ current = key
        THEN [sl EXCEPT !.nodes[key].value = value]
        ELSE LET update == [i \in 1..SkipListMaxLevel |->
                               IF i > sl.level /\ i <= newLevel THEN HEAD
                               ELSE found.update[i]]
                 raised == [sl EXCEPT !.level = IF newLevel > @ THEN newLevel ELSE @]
                 newNode == [value |-> value, forward |-> [i \in 1..newLevel |-> NIL]]
                 withNode == [raised EXCEPT !.nodes[key] = newNode]
             IN  [Splice(withNode, key, update, 1, newLevel) EXCEPT !.size = @ + 1]

\* SkipList.set; newLevel is what _randomLevel() returns when the key is new
SkipListNodeSet(sl, key, value, newLevel) ==
    LET found == Search(sl, key)
        current == Forward(sl, found.current, 1)
    IN  IF current # NIL /\ current = key
        THEN [sl EXCEPT !.nodes[key].value = value]
        ELSE LET update == [i \in 1..SkipListMaxLevel |->
                               IF i > sl.level /\ i <= newLevel THEN HEAD
                               ELSE found.update[i]]
                 raised == [sl EXCEPT !.level = IF newLevel > @ THEN newLevel ELSE @]
                 newNode == [value |-> value,
                             forward |-> [i \in 1..newLevel |-> Forward(raised, update[i], i)]]
                 withNode == [raised EXCEPT !.nodes[key] = newNode]
             IN  [Splice(withNode, key, update, 1, newLevel) EXCEPT !.size = @ + 1]

\* SkipList.get
SkipListNodeGet(sl, key) ==
    LET current == Forward(sl, Search(sl, key).current, 1)
    IN  IF current # NIL /\ current = key THEN sl.nodes[current].value ELSE UNDEFINED

\* the unlink loop of delete: from level i up, until update[i] does not point at the node
RECURSIVE UnlinkNode(_, _, _, _)
UnlinkNode(sl, key, update, i) ==
    IF i > sl.level THEN sl
    ELSE IF Forward(sl, update[i], i) # key THEN sl
    ELSE UnlinkNode(SetForward(sl, update[i], i, sl.nodes[key].forward[i]), key, update, i + 1)

\* the while loop of delete: this.level lowered past the empty levels
RECURSIVE LowerLevel(_)
LowerLevel(sl) ==
    IF sl.level > 1 /\ sl.head[sl.level] = NIL
    THEN LowerLevel([sl EXCEPT !.level = @ - 1])
    ELSE sl

\* SkipList.delete: the list after the call and the value returned
SkipListNodeDelete(sl, key) ==
    LET found == Search(sl, key)
        current == Forward(sl, found.current, 1)
    IN  IF current # NIL /\ current = key
        THEN LET unlinked == UnlinkNode(sl, key, found.update, 1)
                 lowered == LowerLevel(unlinked)
             IN  [list |-> [lowered EXCEPT !.nodes[key] = NoNode, !.size = @ - 1],
                  returned |-> TRUE]
        ELSE [list |-> sl, returned |-> FALSE]

\* the walk along level 0 from a node while its key <= endKey (no bound: endKey = NIL)
RECURSIVE WalkFrom(_, _, _)
WalkFrom(sl, current, endKey) ==
    IF current = NIL THEN <<>>
    ELSE IF endKey # NIL /\ ~KeyLE(current, endKey) THEN <<>>
    ELSE <<[key |-> current, value |-> sl.nodes[current].value]>>
         \o WalkFrom(sl, Forward(sl, current, 1), endKey)

\* SkipList.range
SkipListNodeRange(sl, startKey, endKey) ==
    WalkFrom(sl, Forward(sl, Search(sl, startKey).current, 1), endKey)

\* SkipList[Symbol.iterator]
SkipListIterator(sl) == WalkFrom(sl, sl.head[1], NIL)

----------------------------------------------------------------------------
(* step2/wal.js *)

\* WriteAheadLog.logSet: the line appended, as JSON.parse reads it back
LogSetRecord(key, value) == [op |-> "SET", key |-> key, value |-> JsonRoundTrip(value)]

\* WriteAheadLog.logDelete
LogDeleteRecord(key) == [op |-> "DELETE", key |-> key, value |-> UNDEFINED]

\* WriteAheadLog.recover: the Map built by replaying the lines in order
RECURSIVE WalRecover(_, _)
WalRecover(lines, n) ==
    IF n = 0 THEN [k \in AnyKey |-> NOT_IN_MAP]
    ELSE LET store == WalRecover(lines, n - 1)
             entry == lines[n]
         IN  IF entry.op = "SET" THEN [store EXCEPT ![entry.key] = entry.value]
             ELSE IF entry.op = "DELETE" THEN [store EXCEPT ![entry.key] = NOT_IN_MAP]
             ELSE store

----------------------------------------------------------------------------
(* step4/sstable-writer.js *)

\* SSTableWriter blockSize default
BlockSize == 4096

\* SSTableWriter._estimateEntrySize: JSON.stringify(entry).length
EstimateEntrySize(entry) ==
    IF JsonRoundTrip(entry.value) = UNDEFINED
    THEN 10 + Len(entry.key)
    ELSE 21 + Len(entry.key) + Len(entry.value)

\* SSTableWriter._finalizeBlock: the entries as JSON.parse reads the block back
FinalizeBlock(entries) ==
    [i \in 1..Len(entries) |->
        [key |-> entries[i].key, value |-> JsonRoundTrip(entries[i].value)]]

\* a block builder that closes the block as soon as the next entry would reach blockSize
RECURSIVE BuildDataBlocksClosingAtSize(_, _, _, _, _)
BuildDataBlocksClosingAtSize(blockSize, entries, i, currentBlockEntries, currentBlockSize) ==
    IF i > Len(entries)
    THEN IF Len(currentBlockEntries) > 0 THEN <<FinalizeBlock(currentBlockEntries)>> ELSE <<>>
    ELSE LET entrySize == EstimateEntrySize(entries[i])
         IN  IF currentBlockSize + entrySize >= blockSize /\ Len(currentBlockEntries) > 0
             THEN <<FinalizeBlock(currentBlockEntries)>>
                  \o BuildDataBlocksClosingAtSize(blockSize, entries, i + 1, <<entries[i]>>,
                                                  entrySize)
             ELSE BuildDataBlocksClosingAtSize(blockSize, entries, i + 1,
                                               Append(currentBlockEntries, entries[i]),
                                               currentBlockSize + entrySize)

\* SSTableWriter._buildDataBlocks of a writer constructed with blockSize
RECURSIVE BuildDataBlocksOfSize(_, _, _, _, _)
BuildDataBlocksOfSize(blockSize, entries, i, currentBlockEntries, currentBlockSize) ==
    IF i > Len(entries)
    THEN IF Len(currentBlockEntries) > 0 THEN <<FinalizeBlock(currentBlockEntries)>> ELSE <<>>
    ELSE LET entrySize == EstimateEntrySize(entries[i])
         IN  IF currentBlockSize + entrySize > blockSize /\ Len(currentBlockEntries) > 0
             THEN <<FinalizeBlock(currentBlockEntries)>>
                  \o BuildDataBlocksOfSize(blockSize, entries, i + 1, <<entries[i]>>, entrySize)
             ELSE BuildDataBlocksOfSize(blockSize, entries, i + 1,
                                        Append(currentBlockEntries, entries[i]),
                                        currentBlockSize + entrySize)

\* SSTableWriter._buildDataBlocks of a writer constructed without a blockSize
BuildDataBlocks(entries, i, currentBlockEntries, currentBlockSize) ==
    BuildDataBlocksOfSize(BlockSize, entries, i, currentBlockEntries, currentBlockSize)

\* SSTableWriter.write throws 'Cannot write empty SSTable'
WriteThrows(entries) == Len(entries) = 0

\* SSTableWriter.write of a writer constructed with blockSize: the file written
\* for a non-empty entry stream
SSTableWriteOfSize(blockSize, level, seq, entries) ==
    LET allEntries == [i \in 1..Len(entries) |->
                          [key |-> entries[i].key,
                           value |-> IF entries[i].value = TOMBSTONE
                                     THEN "__TOMBSTONE__" ELSE entries[i].value]]
    IN  [level |-> level, seq |-> seq,
         blocks |-> BuildDataBlocksOfSize(blockSize, allEntries, 1, <<>>, 0),
         minKey |-> allEntries[1].key,
         maxKey |-> allEntries[Len(allEntries)].key,
         entryCount |-> Len(allEntries)]

\* SSTableWriter.write of a writer constructed without a blockSize, as the engine's
SSTableWrite(level, seq, entries) == SSTableWriteOfSize(BlockSize, level, seq, entries)

----------------------------------------------------------------------------
(* step4/sstable-reader.js; a reader is the file it was opened on, whose     *)
(* footer and index it caches and whose blocks it loads on every read        *)

\* SSTableReader._findBlockIndex, with 0-based left, right and result
RECURSIVE FindBlockIndex(_, _, _, _, _)
FindBlockIndex(t, key, left, right, result) ==
    IF left > right THEN result
    ELSE LET mid == (left + right) \div 2
             block == t.blocks[mid + 1]
             startKey == block[1].key
             endKey == block[Len(block)].key
         IN  IF KeyLE(startKey, key) /\ KeyLE(key, endKey) THEN mid
             ELSE IF KeyLT(key, startKey) THEN FindBlockIndex(t, key, left, mid - 1, result)
             ELSE FindBlockIndex(t, key, mid + 1, right, mid)

\* SSTableReader._binarySearchBlock: the entry's 1-based position, 0 for null
RECURSIVE BinarySearchBlock(_, _, _, _)
BinarySearchBlock(entries, key, left, right) ==
    IF left > right THEN 0
    ELSE LET mid == (left + right) \div 2
         IN  IF entries[mid + 1].key = key THEN mid + 1
             ELSE IF KeyLT(entries[mid + 1].key, key)
                  THEN BinarySearchBlock(entries, key, mid + 1, right)
                  ELSE BinarySearchBlock(entries, key, left, mid - 1)

\* the reader's conversion of a stored value
ReadValue(v) == IF v = "__TOMBSTONE__" THEN TOMBSTONE ELSE v

\* SSTableReader.get
SSTableGet(t, key) ==
    IF KeyLT(key, t.minKey) \/ KeyLT(t.maxKey, key) THEN UNDEFINED
    ELSE LET blockIndex == FindBlockIndex(t, key, 0, Len(t.blocks) - 1, -1)
         IN  IF blockIndex = -1 THEN UNDEFINED
             ELSE LET entries == t.blocks[blockIndex + 1]
                      pos == BinarySearchBlock(entries, key, 0, Len(entries) - 1)
                  IN  IF pos = 0 THEN UNDEFINED ELSE ReadValue(entries[pos].value)

\* SSTableReader[Symbol.iterator]: every entry, block after block
RECURSIVE SSTableEntriesFrom(_, _)
SSTableEntriesFrom(t, b) ==
    IF b > Len(t.blocks) THEN <<>>
    ELSE [i \in 1..Len(t.blocks[b]) |->
             [key |-> t.blocks[b][i].key, value |-> ReadValue(t.blocks[b][i].value)]]
         \o SSTableEntriesFrom(t, b + 1)

SSTableEntries(t) == SSTableEntriesFrom(t, 1)

\* SSTableReader.range: blocks from blockIdx (0-based) on, until one starts past endKey
RECURSIVE SSTableRangeFrom(_, _, _, _)
SSTableRangeFrom(t, startKey, endKey, blockIdx) ==
    IF blockIdx >= Len(t.blocks) THEN <<>>
    ELSE LET block == t.blocks[blockIdx + 1]
         IN  IF KeyLT(endKey, block[1].key) THEN <<>>
             ELSE LET inRange == SelectSeq(block,
                                     LAMBDA e : KeyLE(startKey, e.key) /\ KeyLE(e.key, endKey))
                  IN  [i \in 1..Len(inRange) |->
                          [key |-> inRange[i].key, value |-> ReadValue(inRange[i].value)]]
                      \o SSTableRangeFrom(t, startKey, endKey, blockIdx + 1)

\* a range that reads the first candidate block only
SSTableRangeFirstBlock(t, startKey, endKey) ==
    LET found == FindBlockIndex(t, startKey, 0, Len(t.blocks) - 1, -1)
        blockIdx == IF found = -1 THEN 0 ELSE found
        block == t.blocks[blockIdx + 1]
        inRange == SelectSeq(block, LAMBDA e : KeyLE(startKey, e.key) /\ KeyLE(e.key, endKey))
    IN  [i \in 1..Len(inRange) |->
            [key |-> inRange[i].key, value |-> ReadValue(inRange[i].value)]]

\* SSTableReader.range
SSTableRange(t, startKey, endKey) ==
    LET found == FindBlockIndex(t, startKey, 0, Len(t.blocks) - 1, -1)
    IN  SSTableRangeFrom(t, startKey, endKey, IF found = -1 THEN 0 ELSE found)

----------------------------------------------------------------------------
(* step5/lsm-tree.js *)

\* the options.level0MaxFiles values explored: 2 is the demo's
Level0MaxFilesChoices == {2, 3}
\* the options.memtableMaxSize values explored: with 140 a flush runs as soon as the
\* MemTable holds two entries (70 + 70 bytes, or 70 + 74 with a tombstone)
MemtableMaxSizes == {140}
\* the options.maxLevels values explored
MaxLevelsChoices == {2}

\* the engine and its directory as one record, threaded through the private methods
Engine == [walFile |-> walFile, dir |-> dir, memtable |-> memtable, levels |-> levels,
           sstableCounter |-> sstableCounter, threw |-> FALSE]

\* the directory listing after a file is created: the new name may be listed at any place
InsertAt(files, pos, file) ==
    LET p == IF pos > Len(files) THEN Len(files) ELSE pos
    IN  SubSeq(files, 1, p) \o <<file>> \o SubSeq(files, p + 1, Len(files))

\* fs.unlinkSync of every file of a reader list
Unlink(files, readers) ==
    SelectSeq(files, LAMBDA f : \A i \in 1..Len(readers) : readers[i].seq # f.seq)

\* LSMTree.get step 2: Level 0 from the last reader to the first; SEARCH_ON when none answers
SEARCH_ON == "<search on>"
RECURSIVE GetLevel0(_, _, _)
GetLevel0(tables, key, i) ==
    IF i < 1 THEN SEARCH_ON
    ELSE LET value == SSTableGet(tables[i], key)
         IN  IF value # UNDEFINED
             THEN IF value = TOMBSTONE THEN UNDEFINED ELSE value
             ELSE GetLevel0(tables, key, i - 1)

\* LSMTree.get step 3: levels 1.., each reader whose [minKey, maxKey] holds the key
RECURSIVE GetDeeper(_, _, _, _)
GetDeeper(lv, key, level, j) ==
    IF level >= Len(lv) THEN UNDEFINED
    ELSE IF j > Len(lv[level + 1]) THEN GetDeeper(lv, key, level + 1, 1)
    ELSE LET sstable == lv[level + 1][j]
             value == IF KeyLE(sstable.minKey, key) /\ KeyLE(key, sstable.maxKey)
                      THEN SSTableGet(sstable, key) ELSE UNDEFINED
         IN  IF value # UNDEFINED
             THEN IF value = TOMBSTONE THEN UNDEFINED ELSE value
             ELSE GetDeeper(lv, key, level, j + 1)

\* LSMTree.get
GetOf(mt, lv, key) ==
    LET memValue == MemTableGet(mt, key)
    IN  IF memValue # UNDEFINED
        THEN IF memValue = MEM_TOMBSTONE THEN UNDEFINED ELSE memValue
        ELSE LET l0 == GetLevel0(lv[1], key, Len(lv[1]))
             IN  IF l0 # SEARCH_ON THEN l0 ELSE GetDeeper(lv, key, 1, 1)

Get(key) == GetOf(memtable, levels, key)

\* Map.set of every entry of a sequence, in order
RECURSIVE MapSetAll(_, _, _)
MapSetAll(map, entries, n) ==
    IF n = 0 THEN map
    ELSE [MapSetAll(map, entries, n - 1) EXCEPT ![entries[n].key] = entries[n].value]

\* Map.set of every entry that the Map does not hold yet
RECURSIVE MapSetAbsent(_, _, _)
MapSetAbsent(map, entries, n) ==
    IF n = 0 THEN map
    ELSE LET m == MapSetAbsent(map, entries, n - 1)
         IN  IF m[entries[n].key] = NOT_IN_MAP
             THEN [m EXCEPT ![entries[n].key] = entries[n].value] ELSE m

\* an array of {key, value} after sort((a, b) => a.key.localeCompare(b.key)); keys are distinct
RECURSIVE SortByLocaleCompare(_, _)
SortByLocaleCompare(map, keys) ==
    IF keys = {} THEN <<>>
    ELSE LET k == CHOOSE x \in keys : \A y \in keys : LocaleCompare(x, y) <= 0
         IN  <<[key |-> k, value |-> map[k]]>> \o SortByLocaleCompare(map, keys \ {k})

\* LSMTree.range: the readers of one level, in array order
RECURSIVE RangeLevel(_, _, _, _, _)
RangeLevel(results, tables, startKey, endKey, n) ==
    IF n = 0 THEN results
    ELSE LET r == SSTableRange(tables[n], startKey, endKey)
         IN  MapSetAll(RangeLevel(results, tables, startKey, endKey, n - 1), r, Len(r))

\* LSMTree.range: the levels from the deepest (level) up to Level 0
RECURSIVE RangeLevels(_, _, _, _)
RangeLevels(lv, startKey, endKey, level) ==
    IF level >= Len(lv) THEN [k \in Keys |-> NOT_IN_MAP]
    ELSE RangeLevel(RangeLevels(lv, startKey, endKey, level + 1),
                    lv[level + 1], startKey, endKey, Len(lv[level + 1]))

\* LSMTree.range
RangeOf(mt, lv, startKey, endKey) ==
    LET fromTables == RangeLevels(lv, startKey, endKey, 0)
        fromMem == MemTableRange(mt, startKey, endKey)
        results == MapSetAll(fromTables, fromMem, Len(fromMem))
        output == {k \in Keys : /\ results[k] # NOT_IN_MAP
                                /\ results[k] # TOMBSTONE
                                /\ results[k] # MEM_TOMBSTONE}
    IN  SortByLocaleCompare(results, output)

Range(startKey, endKey) == RangeOf(memtable, levels, startKey, endKey)

\* the entries of all readers of a level, Map.set in array order
RECURSIVE CollectLevel(_, _, _)
CollectLevel(map, tables, n) ==
    IF n = 0 THEN map
    ELSE LET es == SSTableEntries(tables[n])
         IN  MapSetAll(CollectLevel(map, tables, n - 1), es, Len(es))

\* the entries of all readers of the next level, only where the Map has no entry
RECURSIVE CollectNextLevel(_, _, _)
CollectNextLevel(map, tables, n) ==
    IF n = 0 THEN map
    ELSE LET es == SSTableEntries(tables[n])
         IN  MapSetAbsent(CollectNextLevel(map, tables, n - 1), es, Len(es))

\* a compaction that keeps the tombstones at the deepest level too
CompactLevelKeepingTombstones(st, level, pos) ==
    IF level >= maxLevels - 1 THEN st
    ELSE LET oldSstables == st.levels[level + 1]
             nextLevelOldSstables == st.levels[level + 2]
             fromLevel == CollectLevel([k \in Keys |-> NOT_IN_MAP], oldSstables,
                                       Len(oldSstables))
             allEntries == CollectNextLevel(fromLevel, nextLevelOldSstables,
                                            Len(nextLevelOldSstables))
             kept == {k \in Keys : allEntries[k] # NOT_IN_MAP}
             entries == SortByLocaleCompare(allEntries, kept)
             seq == st.sstableCounter
             file == SSTableWrite(level + 1, seq, entries)
             written == IF Len(entries) > 0 THEN InsertAt(st.dir, pos, file) ELSE st.dir
         IN  [st EXCEPT !.sstableCounter = seq + 1,
                        !.levels[level + 2] = IF Len(entries) > 0 THEN <<file>> ELSE <<>>,
                        !.levels[level + 1] = <<>>,
                        !.dir = Unlink(Unlink(written, oldSstables), nextLevelOldSstables)]

\* a compaction that leaves its input readers in this.levels[level]
CompactLevelKeepingInputs(st, level, pos) ==
    IF level >= maxLevels - 1 THEN st
    ELSE LET oldSstables == st.levels[level + 1]
             nextLevelOldSstables == st.levels[level + 2]
             fromLevel == CollectLevel([k \in Keys |-> NOT_IN_MAP], oldSstables,
                                       Len(oldSstables))
             allEntries == CollectNextLevel(fromLevel, nextLevelOldSstables,
                                            Len(nextLevelOldSstables))
             kept == {k \in Keys : /\ allEntries[k] # NOT_IN_MAP
                                   /\ ~(level + 1 = maxLevels - 1 /\ allEntries[k] = TOMBSTONE)}
             entries == SortByLocaleCompare(allEntries, kept)
             seq == st.sstableCounter
             file == SSTableWrite(level + 1, seq, entries)
             written == IF Len(entries) > 0 THEN InsertAt(st.dir, pos, file) ELSE st.dir
         IN  [st EXCEPT !.sstableCounter = seq + 1,
                        !.levels[level + 2] = IF Len(entries) > 0 THEN <<file>> ELSE <<>>,
                        !.dir = Unlink(Unlink(written, oldSstables), nextLevelOldSstables)]

\* LSMTree._compactLevel; pos is where the directory lists the new file
CompactLevel(st, level, pos) ==
    IF level >= maxLevels - 1 THEN st
    ELSE LET oldSstables == st.levels[level + 1]
             nextLevelOldSstables == st.levels[level + 2]
             fromLevel == CollectLevel([k \in Keys |-> NOT_IN_MAP], oldSstables,
                                       Len(oldSstables))
             allEntries == CollectNextLevel(fromLevel, nextLevelOldSstables,
                                            Len(nextLevelOldSstables))
             kept == {k \in Keys : /\ allEntries[k] # NOT_IN_MAP
                                   /\ ~(level + 1 = maxLevels - 1 /\ allEntries[k] = TOMBSTONE)}
             entries == SortByLocaleCompare(allEntries, kept)
             seq == st.sstableCounter
             file == SSTableWrite(level + 1, seq, entries)
             written == IF Len(entries) > 0 THEN InsertAt(st.dir, pos, file) ELSE st.dir
         IN  [st EXCEPT !.sstableCounter = seq + 1,
                        !.levels[level + 2] = IF Len(entries) > 0 THEN <<file>> ELSE <<>>,
                        !.levels[level + 1] = <<>>,
                        !.dir = Unlink(Unlink(written, oldSstables), nextLevelOldSstables)]

\* a flush that compacts only when Level 0 holds more than level0MaxFiles tables
FlushMemtableAboveThreshold(st, pos, posCompact) ==
    LET seq == st.sstableCounter
        entries == MemTableEntries(st.memtable)
    IN  IF WriteThrows(entries)
        THEN [st EXCEPT !.sstableCounter = seq + 1, !.threw = TRUE]
        ELSE LET file == SSTableWrite(0, seq, entries)
                 flushed == [st EXCEPT !.sstableCounter = seq + 1,
                                       !.dir = InsertAt(@, pos, file),
                                       !.levels[1] = Append(@, file),
                                       !.memtable = EmptyMemTable,
                                       !.walFile = <<>>]
             IN  IF Len(flushed.levels[1]) > level0MaxFiles
                 THEN CompactLevel(flushed, 0, posCompact)
                 ELSE flushed

\* a flush whose compaction of Level 0 goes on to compact Level 1
FlushMemtableCascading(st, pos, posCompact) ==
    LET seq == st.sstableCounter
        entries == MemTableEntries(st.memtable)
    IN  IF WriteThrows(entries)
        THEN [st EXCEPT !.sstableCounter = seq + 1, !.threw = TRUE]
        ELSE LET file == SSTableWrite(0, seq, entries)
                 flushed == [st EXCEPT !.sstableCounter = seq + 1,
                                       !.dir = InsertAt(@, pos, file),
                                       !.levels[1] = Append(@, file),
                                       !.memtable = EmptyMemTable,
                                       !.walFile = <<>>]
             IN  IF Len(flushed.levels[1]) >= level0MaxFiles
                 THEN CompactLevel(CompactLevel(flushed, 0, posCompact), 1, posCompact)
                 ELSE flushed

\* LSMTree._flushMemtable; pos and posCompact are where the directory lists the new files
FlushMemtable(st, pos, posCompact) ==
    LET seq == st.sstableCounter
        entries == MemTableEntries(st.memtable)
    IN  IF WriteThrows(entries)
        THEN [st EXCEPT !.sstableCounter = seq + 1, !.threw = TRUE]
        ELSE LET file == SSTableWrite(0, seq, entries)
                 flushed == [st EXCEPT !.sstableCounter = seq + 1,
                                       !.dir = InsertAt(@, pos, file),
                                       !.levels[1] = Append(@, file),
                                       !.memtable = EmptyMemTable,
                                       !.walFile = <<>>]
             IN  IF Len(flushed.levels[1]) >= level0MaxFiles
                 THEN CompactLevel(flushed, 0, posCompact)
                 ELSE flushed

\* LSMTree.set without its typeof check: the record is logged, then MemTable.set
\* throws on key.length of null
SetOpNoTypeCheck(st, key, value, pos, posCompact) ==
    LET logged == [st EXCEPT !.walFile = Append(@, LogSetRecord(key, value))]
    IN  IF TypeOf(key) # "string" THEN [logged EXCEPT !.threw = TRUE]
        ELSE LET stored == [logged EXCEPT !.memtable = MemTableSet(@, key, value)]
             IN  IF ShouldFlush(stored.memtable, memtableMaxSize)
                 THEN FlushMemtable(stored, pos, posCompact)
                 ELSE stored

\* LSMTree.set
SetOp(st, key, value, pos, posCompact) ==
    IF TypeOf(key) # "string" THEN [st EXCEPT !.threw = TRUE]
    ELSE LET logged == [st EXCEPT !.walFile = Append(@, LogSetRecord(key, value))]
             stored == [logged EXCEPT !.memtable = MemTableSet(@, key, value)]
         IN  IF ShouldFlush(stored.memtable, memtableMaxSize)
             THEN FlushMemtable(stored, pos, posCompact)
             ELSE stored

\* a delete that stores the tombstone without logging it
DeleteOpWithoutLog(st, key, pos, posCompact) ==
    IF TypeOf(key) # "string" THEN [st EXCEPT !.threw = TRUE]
    ELSE LET stored == [st EXCEPT !.memtable = MemTableDelete(@, key)]
         IN  IF ShouldFlush(stored.memtable, memtableMaxSize)
             THEN FlushMemtable(stored, pos, posCompact)
             ELSE stored

\* LSMTree.delete; MemTable._estimateSize throws a TypeError on key.length of null
DeleteOp(st, key, pos, posCompact) ==
    LET logged == [st EXCEPT !.walFile = Append(@, LogDeleteRecord(key))]
    IN  IF TypeOf(key) # "string" THEN [logged EXCEPT !.threw = TRUE]
        ELSE LET stored == [logged EXCEPT !.memtable = MemTableDelete(@, key)]
             IN  IF ShouldFlush(stored.memtable, memtableMaxSize)
                 THEN FlushMemtable(stored, pos, posCompact)
                 ELSE stored

\* a recovery that sets the counter to the number of table files it has seen
RECURSIVE RecoverTablesCountingFiles(_, _)
RecoverTablesCountingFiles(files, n) ==
    IF n = 0 THEN [levels |-> [l \in 1..maxLevels |-> <<>>], sstableCounter |-> 0]
    ELSE LET r == RecoverTablesCountingFiles(files, n - 1)
             file == files[n]
         IN  [levels |-> [r.levels EXCEPT ![file.level + 1] = Append(@, file)],
              sstableCounter |-> r.sstableCounter + 1]

\* LSMTree._recover, first half: one reader per listed table file, in listing order
RECURSIVE RecoverTables(_, _)
RecoverTables(files, n) ==
    IF n = 0 THEN [levels |-> [l \in 1..maxLevels |-> <<>>], sstableCounter |-> 0]
    ELSE LET r == RecoverTables(files, n - 1)
             file == files[n]
         IN  [levels |-> [r.levels EXCEPT ![file.level + 1] = Append(@, file)],
              sstableCounter |-> IF file.seq >= r.sstableCounter
                                 THEN file.seq + 1 ELSE r.sstableCounter]

\* LSMTree._recover, second half: every entry of the recovered Map into the MemTable
RECURSIVE ReplayWal(_, _, _)
ReplayWal(mt, walData, keys) ==
    IF keys = {} THEN mt
    ELSE LET key == CHOOSE k \in keys : TRUE
             value == walData[key]
             next == IF value = NOT_IN_MAP THEN mt
                     ELSE IF IsSymbol(value) THEN MemTableDelete(mt, key)
                     ELSE MemTableSet(mt, key, value)
         IN  ReplayWal(next, walData, keys \ {key})

\* a constructor that empties wal.log once it has replayed it
RecoverTruncatingWal(walLines, files) ==
    LET tables == RecoverTables(files, Len(files))
    IN  [walFile |-> <<>>, dir |-> files,
         memtable |-> ReplayWal(EmptyMemTable, WalRecover(walLines, Len(walLines)), Keys),
         levels |-> tables.levels, sstableCounter |-> tables.sstableCounter, threw |-> FALSE]

\* the LSMTree constructor on an existing directory
Recover(walLines, files) ==
    LET tables == RecoverTables(files, Len(files))
    IN  [walFile |-> walLines, dir |-> files,
         memtable |-> ReplayWal(EmptyMemTable, WalRecover(walLines, Len(walLines)), Keys),
         levels |-> tables.levels, sstableCounter |-> tables.sstableCounter, threw |-> FALSE]

\* LSMTree.close: the WAL descriptor is closed, nothing is written; the closed
\* instance keeps its fields
CloseOp(st) == st

----------------------------------------------------------------------------
(* The state machine *)

Install(st) ==
    /\ walFile' = st.walFile
    /\ dir' = st.dir
    /\ memtable' = st.memtable
    /\ levels' = st.levels
    /\ sstableCounter' = st.sstableCounter

\* the state after new LSMTree(dataDir, options) on an empty directory
InitWith(keySets, level0Choices) ==
    /\ phase = "open"
    /\ callerKeys \in keySets
    /\ level0MaxFiles \in level0Choices
    /\ maxLevels \in MaxLevelsChoices
    /\ memtableMaxSize \in MemtableMaxSizes
    /\ walFile = <<>>
    /\ dir = <<>>
    /\ memtable = EmptyMemTable
    /\ levels = [l \in 1..maxLevels |-> <<>>]
    /\ sstableCounter = 0
    /\ last = [op |-> "open", key |-> NULL_KEY, threw |-> FALSE]
    /\ lastOp = [k \in Keys |-> "none"]
    /\ stream = <<>>
    /\ skipList = EmptySkipList
    /\ quiet = "opened"

Init == InitWith(KeySets, {2})

CanWrite ==
    /\ phase = "open"
    /\ Len(walFile) < MaxWalLen
    /\ sstableCounter + 2 <= MaxCounter

\* db.set(key, value) with a string key
Set(key, value) ==
    /\ CanWrite
    /\ \E pos \in 0..Len(dir) :
          \E st \in {SetOp(Engine, key, value, pos, Len(dir) + 1)} :
              /\ Install(st)
              /\ last' = [op |-> "set", key |-> key, threw |-> st.threw]
              /\ lastOp' = IF st.threw THEN lastOp ELSE [lastOp EXCEPT ![key] = value]
    /\ quiet' = "no"
    /\ UNCHANGED <<stream, skipList, phase, callerKeys, maxLevels, memtableMaxSize, level0MaxFiles>>

\* db.set(null, value)
SetNonString(value) ==
    /\ CanWrite
    /\ \E st \in {SetOp(Engine, NULL_KEY, value, 0, 0)} :
           /\ Install(st)
           /\ last' = [op |-> "set", key |-> NULL_KEY, threw |-> st.threw]
    /\ quiet' = "no"
    /\ UNCHANGED <<stream, skipList, phase, callerKeys, maxLevels, memtableMaxSize, level0MaxFiles, lastOp>>

\* db.delete(key) with a string key
Delete(key) ==
    /\ CanWrite
    /\ \E pos \in 0..Len(dir) :
          \E st \in {DeleteOp(Engine, key, pos, Len(dir) + 1)} :
              /\ Install(st)
              /\ last' = [op |-> "delete", key |-> key, threw |-> st.threw]
              /\ lastOp' = IF st.threw THEN lastOp ELSE [lastOp EXCEPT ![key] = "deleted"]
    /\ quiet' = "no"
    /\ UNCHANGED <<stream, skipList, phase, callerKeys, maxLevels, memtableMaxSize, level0MaxFiles>>

\* db.delete(null)
DeleteNonString ==
    /\ CanWrite
    /\ \E st \in {DeleteOp(Engine, NULL_KEY, 0, 0)} :
           /\ Install(st)
           /\ last' = [op |-> "delete", key |-> NULL_KEY, threw |-> st.threw]
    /\ quiet' = "no"
    /\ UNCHANGED <<stream, skipList, phase, callerKeys, maxLevels, memtableMaxSize, level0MaxFiles, lastOp>>

\* db.close()
Close ==
    /\ phase = "open"
    /\ phase' = "closed"
    /\ Install(CloseOp(Engine))
    /\ last' = [op |-> "close", key |-> NULL_KEY, threw |-> FALSE]
    /\ quiet' = IF quiet \in {"opened", "reopened"} THEN "closed" ELSE "no"
    /\ UNCHANGED <<stream, skipList, callerKeys, maxLevels, memtableMaxSize, level0MaxFiles, lastOp>>

\* the process is killed between two calls and a new LSMTree is constructed on the
\* directory: every append was synced, so the disk is as the last call left it
Crash ==
    /\ phase = "open"
    /\ Install(Recover(walFile, dir))
    /\ last' = [op |-> "restart", key |-> NULL_KEY, threw |-> FALSE]
    /\ quiet' = "no"
    /\ UNCHANGED <<stream, skipList, phase, callerKeys, maxLevels, memtableMaxSize, level0MaxFiles, lastOp>>

\* new LSMTree(dataDir, options) after close()
Open ==
    /\ phase = "closed"
    /\ phase' = "open"
    /\ Install(Recover(walFile, dir))
    /\ last' = [op |-> "open", key |-> NULL_KEY, threw |-> FALSE]
    /\ quiet' = IF quiet = "closed" THEN "reopened" ELSE "opened"
    /\ UNCHANGED <<stream, skipList, callerKeys, maxLevels, memtableMaxSize, level0MaxFiles, lastOp>>

Next ==
    \/ \E key \in callerKeys, value \in Values : Set(key, value)
    \/ \E value \in Values : SetNonString(value)
    \/ \E key \in callerKeys : Delete(key)
    \/ DeleteNonString
    \/ Close
    \/ Crash
    \/ Open

Spec == Init /\ [][Next]_vars

\* the runs whose keys are all lower case: code-unit order and collation order agree
SpecSameCase == InitWith({{"a", "b"}}, {2}) /\ [][Next]_vars

\* the runs whose keys differ in letter case: the two orders disagree
SpecMixedCase == InitWith({{"B", "a"}}, {2}) /\ [][Next]_vars

\* the runs in which Level 0 may hold two tables between calls
SpecTwoAtLevel0 == InitWith({{"a", "b"}}, {3}) /\ [][Next]_vars

\* the directory and wal.log after each file-system call of a set (or, with value
\* MEM_TOMBSTONE, a delete) of a string key, in the order the calls are made:
\* the WAL append; then, when the MemTable is flushed, the Level-0 file and the
\* unlink of wal.log; then, when Level 0 is compacted, the merged file and the
\* unlinks of the old files one by one
DiskStages(st, key, value, pos) ==
    LET record == IF value = MEM_TOMBSTONE THEN LogDeleteRecord(key)
                  ELSE LogSetRecord(key, value)
        logged == Append(st.walFile, record)
        mt == MemTableSet(st.memtable, key, value)
        flushFile == SSTableWrite(0, st.sstableCounter, MemTableEntries(mt))
        flushedDir == InsertAt(st.dir, pos, flushFile)
        flushed == [st EXCEPT !.sstableCounter = @ + 1,
                              !.dir = flushedDir,
                              !.levels[1] = Append(@, flushFile),
                              !.memtable = EmptyMemTable,
                              !.walFile = <<>>]
        compacts == Len(flushed.levels[1]) >= level0MaxFiles /\ 0 < maxLevels - 1
        merged == CompactLevel(flushed, 0, Len(flushedDir) + 1).levels[2]
        mergedDir == flushedDir \o merged
        olds == flushed.levels[1] \o st.levels[2]
    IN  <<[walFile |-> logged, dir |-> st.dir]>>
        \o (IF ShouldFlush(mt, memtableMaxSize)
            THEN <<[walFile |-> logged, dir |-> flushedDir],
                   [walFile |-> <<>>, dir |-> flushedDir]>>
                 \o (IF compacts
                     THEN [j \in 1..(Len(olds) + 1) |->
                              [walFile |-> <<>>,
                               dir |-> Unlink(mergedDir, SubSeq(olds, 1, j - 1))]]
                     ELSE <<>>)
            ELSE <<>>)

\* the process is killed inside set(key, value) or delete(key), after one of the
\* call's file-system calls, and a new LSMTree is constructed on the directory;
\* the call never returned, and the run ends with the recovered engine
KilledInWrite(key, value) ==
    /\ CanWrite
    /\ phase' = "recovered"
    /\ \E pos \in 0..Len(dir) :
          \E stages \in {DiskStages(Engine, key, value, pos)} :
              \E n \in 1..Len(stages) :
                  Install(Recover(stages[n].walFile, stages[n].dir))
    /\ last' = [op |-> "killed", key |-> key, threw |-> FALSE]
    /\ quiet' = "no"
    /\ UNCHANGED <<stream, skipList, callerKeys, maxLevels, memtableMaxSize, level0MaxFiles, lastOp>>

NextWithKill ==
    \/ Next
    \/ \E key \in callerKeys, value \in Values \cup {MEM_TOMBSTONE} : KilledInWrite(key, value)

\* the runs in which the process may also be killed in the middle of a write
SpecKilledInWrite == InitWith({{"a", "b"}}, {2}) /\ [][NextWithKill]_vars

----------------------------------------------------------------------------
(* A direct caller of the table writer and reader, as the demo of            *)
(* step4/sstable-reader.js: one write(entries) on the path level0_0.sst      *)

\* the values of an entry stream: JSON strings, the writer's tombstone and the
\* tombstone MemTable.entries() yields
StreamValues == Values \cup {TOMBSTONE, MEM_TOMBSTONE}

\* the entry streams: any order, duplicates and the empty stream included
Streams ==
    UNION {[1..n -> [key : Keys, value : StreamValues]] : n \in 0..MaxStreamLen}

\* a table written to the same path by an earlier run
EarlierTable == SSTableWrite(0, 0, <<[key |-> "a", value |-> "v1"]>>)

\* a writer that writes a table without blocks for an empty stream
WriterWriteEmptyTable(files, entries) ==
    IF Len(entries) = 0
    THEN [dir |-> <<[level |-> 0, seq |-> 0, blocks |-> <<>>, minKey |-> UNDEFINED,
                     maxKey |-> UNDEFINED, entryCount |-> 0]>>,
          threw |-> FALSE]
    ELSE [dir |-> <<SSTableWrite(0, 0, entries)>>, threw |-> FALSE]

\* new SSTableWriter(path).write(entries): the directory after the call (the file
\* at the path is created or replaced) and whether the call threw
WriterWrite(files, entries) ==
    IF WriteThrows(entries)
    THEN [dir |-> files, threw |-> TRUE]
    ELSE [dir |-> <<SSTableWrite(0, 0, entries)>>, threw |-> FALSE]

WriterInit ==
    /\ phase = "writer"
    /\ callerKeys = Keys
    /\ level0MaxFiles = 2
    /\ maxLevels = 2
    /\ memtableMaxSize = 140
    /\ walFile = <<>>
    /\ dir \in {<<>>, <<EarlierTable>>}
    /\ memtable = EmptyMemTable
    /\ levels = <<<<>>, <<>>>>
    /\ sstableCounter = 0
    /\ last = [op |-> "open", key |-> NULL_KEY, threw |-> FALSE]
    /\ lastOp = [k \in Keys |-> "none"]
    /\ stream \in Streams
    /\ skipList = EmptySkipList
    /\ quiet = "no"

\* writer.write(stream)
WriteTable ==
    /\ phase = "writer"
    /\ last.op = "open"
    /\ \E r \in {WriterWrite(dir, stream)} :
           /\ dir' = r.dir
           /\ last' = [op |-> "write", key |-> NULL_KEY, threw |-> r.threw]
    /\ UNCHANGED <<skipList, phase, callerKeys, maxLevels, memtableMaxSize, level0MaxFiles, walFile,
                   memtable, levels, sstableCounter, lastOp, stream, quiet>>

SpecWriter == WriterInit /\ [][WriteTable]_vars

----------------------------------------------------------------------------
(* An engine opened on a directory that holds only a wal.log written earlier, *)
(* some of whose lines may be torn or damaged                                 *)

\* a line of wal.log on which JSON.parse throws
CORRUPT_LINE == [op |-> "<unparseable>", key |-> NULL_KEY, value |-> UNDEFINED]

\* the lines of such a log
LogLines ==
    {LogSetRecord(k, v) : k \in {"a", "b"}, v \in Values}
        \cup {LogDeleteRecord(k) : k \in {"a", "b"}}
        \cup {CORRUPT_LINE}

LogInit ==
    /\ phase = "closed"
    /\ callerKeys = {"a", "b"}
    /\ level0MaxFiles = 2
    /\ maxLevels = 2
    /\ memtableMaxSize = 140
    /\ walFile \in UNION {[1..n -> LogLines] : n \in 0..MaxLogLen}
    /\ dir = <<>>
    /\ memtable = EmptyMemTable
    /\ levels = <<<<>>, <<>>>>
    /\ sstableCounter = 0
    /\ last = [op |-> "close", key |-> NULL_KEY, threw |-> FALSE]
    /\ lastOp = [k \in Keys |-> "none"]
    /\ stream = <<>>
    /\ skipList = EmptySkipList
    /\ quiet = "no"

\* the runs that open the engine on such a log
SpecRecoverLog == LogInit /\ [][Open]_vars

TypeOK ==
    /\ phase \in {"open", "closed", "recovered", "writer", "failed", "errored",
                 "memtable", "skiplist"}
    /\ callerKeys \in KeySets \cup {Keys}
    /\ sstableCounter \in 0..MaxCounter
    /\ Len(walFile) <= (IF MaxLogLen > MaxWalLen THEN MaxLogLen ELSE MaxWalLen)

----------------------------------------------------------------------------
(* Properties *)

IsWrite(call) == call.op \in {"set", "delete"}

\* the instance's own fields and the disk
engineVars == <<walFile, dir, memtable, levels, sstableCounter>>

\* the keys of a table, over all its blocks
TableKeys(t) == {SSTableEntries(t)[i].key : i \in 1..Len(SSTableEntries(t))}

\* C1: read-your-writes. In every state of an open engine, a key whose last
\* returned write is set(k, v) reads back as v, however many flushes and
\* compactions the writes to other keys have run since.
C1_ReadYourWrites ==
    phase = "open" => \A k \in Keys : lastOp[k] \in Values => Get(k) = lastOp[k]

\* C2: delete hides the key. A delete(k) that returns leaves get(k) absent, and
\* a later write to another key (with the flush and compaction it runs) keeps
\* get(k) absent.
C2_DeleteHidesKey ==
    [][\A k \in Keys :
          (/\ IsWrite(last')
           /\ lastOp'[k] = "deleted"
           /\ (last'.key = k \/ Get(k) = UNDEFINED))
          => Get(k)' = UNDEFINED]_vars

\* C3: set survives a crash. Right after the process was killed between two
\* calls and a new LSMTree was constructed, a key whose last returned write is
\* set(k, v) reads back as v, whatever order the directory lists the tables in.
C3_SetSurvivesCrash ==
    last.op = "restart" => \A k \in Keys : lastOp[k] \in Values => Get(k) = lastOp[k]

\* C4: delete survives a crash. Right after a kill or a close followed by the
\* construction of a new LSMTree, a key whose last returned write is delete(k)
\* reads back as absent.
C4_DeleteSurvivesCrash ==
    last.op \in {"restart", "open"} =>
        \A k \in Keys : lastOp[k] = "deleted" => Get(k) = UNDEFINED

\* what range(lo, hi) has to return: one entry per live key in [lo, hi], with its last value
LiveEntries(lo, hi) ==
    {[key |-> k, value |-> lastOp[k]] :
        k \in {x \in Keys : lastOp[x] \in Values /\ KeyLE(lo, x) /\ KeyLE(x, hi)}}

RangeIsExact ==
    \A lo \in Keys, hi \in Keys :
        LET r == Range(lo, hi)
        IN  /\ {r[i] : i \in 1..Len(r)} = LiveEntries(lo, hi)
            /\ Len(r) = Cardinality(LiveEntries(lo, hi))

\* C5: range is exact. A set or delete made on a state in which every
\* range(lo, hi) lists exactly the live keys of [lo, hi] with their last values
\* leaves every range(lo, hi) exact: no deleted key, no key outside, no stale value.
C5_RangeExact ==
    [][(IsWrite(last') /\ RangeIsExact) => RangeIsExact']_vars

\* C6: range is ascending. Every range(lo, hi) of an open engine is strictly
\* ascending in code-unit key order.
C6_RangeAscending ==
    phase = "open" =>
        \A lo \in Keys, hi \in Keys :
            LET r == Range(lo, hi)
            IN  \A i \in 1..(Len(r) - 1) : KeyLT(r[i].key, r[i + 1].key)

\* C7: open, close, open is a no-op. close() leaves wal.log and the table files
\* as they are, and an engine opened after a close that followed an open with no
\* call in between answers every get as the engine before it did.
C7_ReopenIsNoOp ==
    [][/\ (phase = "open" /\ phase' = "closed") => (walFile' = walFile /\ dir' = dir)
       /\ (phase = "closed" /\ quiet = "closed" /\ phase' = "open")
            => (/\ \A k \in Keys : Get(k)' = Get(k)
                /\ walFile' = walFile
                /\ dir' = dir)]_vars

\* C7 witness: a reopened engine that answers from a replayed WAL and from a table
C7_Witness ==
    /\ phase = "open"
    /\ quiet = "reopened"
    /\ Len(walFile) > 0
    /\ Len(dir) > 0
    /\ \E k \in Keys : MemTableGet(memtable, k) \in Values
    /\ \E k \in Keys : MemTableGet(memtable, k) = UNDEFINED /\ Get(k) \in Values

\* C8: set with a non-string key throws and changes nothing: wal.log, the table
\* files, the MemTable with its byte size, the level lists and the counter stay.
C8_SetNonStringKeyThrows ==
    [][(last'.op = "set" /\ last'.key = NULL_KEY)
          => (last'.threw /\ UNCHANGED engineVars)]_vars

\* C8 witness: set(null, v) has thrown on an engine that holds a WAL record, a
\* MemTable entry and a table
C8_Witness ==
    /\ last = [op |-> "set", key |-> NULL_KEY, threw |-> TRUE]
    /\ Len(walFile) > 0
    /\ memtable.currentSizeBytes > 0
    /\ Len(dir) > 0

\* C9: delete with a non-string key is surfaced as an error and changes nothing.
C9_DeleteNonStringKeyNoChange ==
    [][(last'.op = "delete" /\ last'.key = NULL_KEY)
          => (last'.threw /\ UNCHANGED engineVars)]_vars

\* the write of this step flushes a MemTable whose entry for k is a deletion
FlushesDeletionOf(k) ==
    /\ IsWrite(last')
    /\ \/ last'.op = "delete" /\ last'.key = k
       \/ last'.key # k /\ memtable.data[k] = MEM_TOMBSTONE

\* C10: no deleted key in the deepest level. When a write flushes the MemTable
\* and compacts Level 0 into the deepest level, the merged table holds no entry
\* for a key whose newest input record, the flushed MemTable's, is a deletion.
C10_NoDeletedKeyAtDeepestLevel ==
    [][(/\ sstableCounter' = sstableCounter + 2
        /\ maxLevels = 2)
          => \A k \in Keys :
                FlushesDeletionOf(k) =>
                    \A i \in 1..Len(levels'[2]) : k \notin TableKeys(levels'[2][i])]_vars

\* the value a table stores for a key, as its reader yields it
TableValue(t, k) ==
    IF k \in TableKeys(t)
    THEN LET es == SSTableEntries(t)
         IN  es[CHOOSE i \in 1..Len(es) : es[i].key = k].value
    ELSE NOT_IN_MAP

\* the step is a set or delete that flushes the MemTable
IsFlushStep == IsWrite(last') /\ ~last'.threw /\ sstableCounter' > sstableCounter

\* the MemTable that the write of this step flushes
FlushedMemTable ==
    IF last'.op = "set" THEN MemTableSet(memtable, last'.key, lastOp'[last'.key])
    ELSE MemTableDelete(memtable, last'.key)

\* the newest record of k among the flushed MemTable, the Level-0 table and the
\* Level-1 table of the state before the step, as a table stores it
NewestFlushed(k) ==
    IF FlushedMemTable.data[k] # NOT_IN_MAP THEN JsonRoundTrip(FlushedMemTable.data[k])
    ELSE IF Len(levels[1]) > 0 /\ k \in TableKeys(levels[1][1]) THEN TableValue(levels[1][1], k)
    ELSE IF Len(levels[2]) > 0 THEN TableValue(levels[2][1], k)
    ELSE NOT_IN_MAP

\* C11 as stated: with level0MaxFiles = 2 the third Level-0 flush (the counter
\* stands at 3 after two flushes and one compaction) leaves levels[0] with 0
\* files and levels[1] with exactly 1 file that holds every flushed key.
C11_ThirdFlushEmptiesLevel0 ==
    [][(level0MaxFiles = 2 /\ IsFlushStep /\ sstableCounter = 3)
          => (/\ Len(levels'[1]) = 0
              /\ Len(levels'[2]) = 1
              /\ \A k \in Keys : TableValue(levels'[2][1], k) = NewestFlushed(k))]_vars

\* C11 amended: with level0MaxFiles = 2 the compaction runs at every second
\* flush. A flush that finds one Level-0 table leaves levels[0] with 0 files and
\* levels[1] with exactly 1 file holding the newest record of every key of the
\* flushed MemTable and the old tables; a flush that finds Level 0 empty (the
\* first, the third) leaves levels[0] with 1 file and levels[1] as it was.
C11_SecondFlushCompacts ==
    [][(level0MaxFiles = 2 /\ IsFlushStep)
          => IF Len(levels[1]) = 1
             THEN /\ Len(levels'[1]) = 0
                  /\ Len(levels'[2]) = 1
                  /\ \A k \in Keys : TableValue(levels'[2][1], k) = NewestFlushed(k)
             ELSE /\ Len(levels[1]) = 0
                  /\ Len(levels'[1]) = 1
                  /\ levels'[2] = levels[2]
                  /\ \A k \in Keys :
                        TableValue(levels'[1][1], k)
                            = (IF FlushedMemTable.data[k] # NOT_IN_MAP
                               THEN JsonRoundTrip(FlushedMemTable.data[k]) ELSE NOT_IN_MAP)]_vars

\* C11 witness: the third flush has run: Level 0 holds its table, Level 1 the
\* table merged at the second flush
C11_Witness ==
    /\ IsWrite(last)
    /\ sstableCounter = 4
    /\ Len(levels[1]) = 1
    /\ Len(levels[2]) = 1
    /\ Cardinality(TableKeys(levels[2][1])) = 2

\* [minKey, maxKey] of two tables do not overlap
DisjointRanges(t, u) == KeyLT(t.maxKey, u.minKey) \/ KeyLT(u.maxKey, t.minKey)

\* C12: in every state, also the one recovery builds after a kill in the middle
\* of a flush or compaction, the tables of each level L >= 1 have pairwise
\* disjoint [minKey, maxKey] ranges.
C12_DeeperLevelsDisjoint ==
    \A l \in 2..maxLevels :
        \A i \in 1..Len(levels[l]), j \in 1..Len(levels[l]) :
            i < j => DisjointRanges(levels[l][i], levels[l][j])

\* a table file is sorted in code-unit key order, block by block, and its footer
\* names its least and its greatest key
TableIsSorted(t) ==
    /\ \A b \in 1..Len(t.blocks) :
          \A i \in 1..(Len(t.blocks[b]) - 1) :
              KeyLT(t.blocks[b][i].key, t.blocks[b][i + 1].key)
    /\ \A b \in 1..(Len(t.blocks) - 1) :
          KeyLT(t.blocks[b][Len(t.blocks[b])].key, t.blocks[b + 1][1].key)
    /\ t.minKey \in TableKeys(t)
    /\ t.maxKey \in TableKeys(t)
    /\ \A k \in TableKeys(t) : KeyLE(t.minKey, k) /\ KeyLE(k, t.maxKey)

\* C13: every table file the engine has written, by flush or by compaction, is
\* sorted in code-unit key order with footer minKey/maxKey its least and
\* greatest key, also when the keys differ in letter case.
C13_TablesSortedByCodeUnit ==
    \A i \in 1..Len(dir) : TableIsSorted(dir[i])

\* the sequence numbers in the names of the table files of a directory
SeqsOf(files) == {files[i].seq : i \in 1..Len(files)}

\* C14: after every step, an open or a recovery among them, sstableCounter is
\* greater than the sequence number of every table file in the directory, and
\* a table file the step has written carries a sequence number that no file of
\* the directory carried before the step, so no table is overwritten.
C14_FreshSequenceNumbers ==
    [][/\ \A n \in SeqsOf(dir') : n < sstableCounter'
       /\ \A i \in 1..Len(dir') :
             (\A j \in 1..Len(dir) : dir[j] # dir'[i]) => dir'[i].seq \notin SeqsOf(dir)
       /\ \A i \in 1..Len(dir'), j \in 1..Len(dir') :
             i # j => dir'[i].seq # dir'[j].seq]_vars

\* C14 witness: an engine recovered on a directory in which a kill inside a
\* compaction left four table files, the counter past all of them
C14_Witness ==
    /\ phase = "recovered"
    /\ Len(dir) = 4
    /\ sstableCounter = 6
    /\ 5 \in SeqsOf(dir)

\* an entry stream is strictly ascending in code-unit key order
IsAscending(entries) ==
    \A i \in 1..(Len(entries) - 1) : KeyLT(entries[i].key, entries[i + 1].key)

\* C15: sorted-table round trip. For every non-empty ascending stream, the
\* streams of MemTable.entries() with deleted keys among them, write(stream)
\* returns and iterating the file yields the same keys with the same values,
\* every tombstone coming back as the reader's tombstone.
C15_WriteReadRoundTrip ==
    (last.op = "write" /\ stream # <<>> /\ IsAscending(stream))
        => /\ ~last.threw
           /\ Len(dir) = 1
           /\ SSTableEntries(dir[1])
                = [i \in 1..Len(stream) |->
                      [key |-> stream[i].key,
                       value |-> IF IsSymbol(stream[i].value)
                                 THEN TOMBSTONE ELSE stream[i].value]]

\* C16: write on an empty entry stream throws and creates or modifies no table
\* file: the directory is as it was, with or without a table at the path.
C16_EmptyStreamThrows ==
    [][(last'.op = "write" /\ stream = <<>>) => (last'.threw /\ dir' = dir)]_vars

\* C16 witness: write(<<>>) has thrown and the earlier table is still at the path
C16_Witness ==
    /\ last = [op |-> "write", key |-> NULL_KEY, threw |-> TRUE]
    /\ stream = <<>>
    /\ dir = <<EarlierTable>>

\* C17: write on a stream whose keys are not strictly ascending throws and
\* leaves the directory as it was: no table file is produced.
C17_UnsortedStreamThrows ==
    [][(last'.op = "write" /\ stream # <<>> /\ ~IsAscending(stream))
          => (last'.threw /\ dir' = dir)]_vars

\* the positions of the unparseable lines of wal.log
CorruptAt == {i \in 1..Len(walFile) : walFile[i] = CORRUPT_LINE}

\* the lines of wal.log before its first unparseable line
CleanPrefix ==
    IF CorruptAt = {} THEN walFile
    ELSE SubSeq(walFile, 1, (CHOOSE i \in CorruptAt : \A j \in CorruptAt : i <= j) - 1)

\* C18: WAL replay stops at the first unparseable record. After an open on a
\* log whose line i is the first corrupt one, the MemTable is the one that the
\* replay of lines 1..i-1 alone builds; no later line is applied.
C18_ReplayStopsAtCorruptLine ==
    (last.op = "open" /\ CorruptAt # {})
        => memtable = ReplayWal(EmptyMemTable, WalRecover(CleanPrefix, Len(CleanPrefix)), Keys)

\* the position of the last record of wal.log that names k
LastRecordOf(k) ==
    CHOOSE i \in 1..Len(walFile) :
        walFile[i].key = k /\ \A j \in (i + 1)..Len(walFile) : walFile[j].key # k

\* C19: recovery rebuilds the MemTable from the WAL record by record. After an
\* open or a restart, for every key k that occurs in the WAL the MemTable holds
\* v if the last record of k is SET(k, v) and the tombstone if it is DELETE(k).
C19_MemTableRebuiltFromWal ==
    last.op \in {"open", "restart"} =>
        \A k \in Keys :
            (\E i \in 1..Len(walFile) : walFile[i].key = k) =>
                MemTableGet(memtable, k)
                    = (IF walFile[LastRecordOf(k)].op = "SET"
                       THEN walFile[LastRecordOf(k)].value ELSE MEM_TOMBSTONE)

\* the last record of wal.log that names k is the one that put v into the MemTable
LoggedAs(k, v) ==
    /\ \E i \in 1..Len(walFile) : walFile[i].key = k
    /\ walFile[LastRecordOf(k)]
         = (IF v = MEM_TOMBSTONE THEN LogDeleteRecord(k) ELSE LogSetRecord(k, v))

\* C20: write-ahead ordering. In every state, the one recovered after a kill
\* between the WAL append and the MemTable mutation included, each entry of the
\* MemTable has its record in the current wal.log.
C20_MemTableEntriesAreLogged ==
    \A k \in Keys :
        MemTableGet(memtable, k) # UNDEFINED => LoggedAs(k, MemTableGet(memtable, k))

\* C20 witness: the process was killed inside a set after the WAL append; the
\* recovered MemTable holds the value of that record, which no returned call wrote
C20_Witness ==
    /\ phase = "recovered"
    /\ last.op = "killed"
    /\ MemTableGet(memtable, last.key) \in Values
    /\ MemTableGet(memtable, last.key) # lastOp[last.key]
    /\ Len(walFile) = 2

\* C21: at the end of every set or delete call, returned or thrown, the record
\* the call appended to wal.log is reflected in memory: the MemTable holds the
\* record's value (the tombstone for a DELETE) under the record's key or, when
\* the call flushed, a table on disk holds the key.
C21_LoggedRecordIsApplied ==
    [][IsWrite(last') =>
          /\ Len(walFile') = Len(walFile) + 1 =>
                LET record == walFile'[Len(walFile')]
                IN  /\ record.key \in Keys
                    /\ MemTableGet(memtable', record.key)
                         = (IF record.op = "SET" THEN record.value ELSE MEM_TOMBSTONE)
          /\ sstableCounter' > sstableCounter =>
                \E i \in 1..Len(dir') : last'.key \in TableKeys(dir'[i])]_vars

\* the Level-0 tables that hold an entry for k
HoldingAtLevel0(k) == {i \in 1..Len(levels[1]) : k \in TableKeys(levels[1][i])}

\* the deeper tables that hold an entry for k
HoldingDeeper(k) == {j \in 1..Len(levels[2]) : k \in TableKeys(levels[2][j])}

\* what a read answers for a stored record: its value, or absent for a deletion
AnswerOf(v) == IF v \in Values THEN v ELSE UNDEFINED

\* C22: read precedence. get(k) answers from the newest place that holds a
\* record for k: the MemTable, else the Level-0 table with the highest sequence
\* number that holds k, else a Level-1 table; a deletion in that place ends the
\* search with absent and no older table is consulted.
C22_ReadPrecedence ==
    phase = "open" =>
        \A k \in Keys :
            IF memtable.data[k] # NOT_IN_MAP
            THEN Get(k) = AnswerOf(memtable.data[k])
            ELSE IF HoldingAtLevel0(k) # {}
            THEN LET i == CHOOSE i \in HoldingAtLevel0(k) :
                              \A j \in HoldingAtLevel0(k) :
                                  levels[1][j].seq <= levels[1][i].seq
                 IN  Get(k) = AnswerOf(TableValue(levels[1][i], k))
            ELSE IF HoldingDeeper(k) # {}
            THEN \E j \in HoldingDeeper(k) : Get(k) = AnswerOf(TableValue(levels[2][j], k))
            ELSE Get(k) = UNDEFINED

\* C23: flush trigger and effect. A set or delete that leaves the MemTable's
\* size estimate at or above memtableMaxSize (equality included) flushes in the
\* same call: the MemTable is empty with size 0, wal.log is fresh and empty, and
\* one new Level-0 table with the flushed keys and live values has been appended
\* as the newest element of levels[0] before any compaction (which, when it
\* runs, leaves the flushed keys in the merged table). Below the threshold
\* nothing is flushed.
C23_FlushAtThreshold ==
    [][(IsWrite(last') /\ ~last'.threw) =>
          LET mt == FlushedMemTable
              flushedKeys == {k \in Keys : mt.data[k] # NOT_IN_MAP}
          IN  IF mt.currentSizeBytes >= memtableMaxSize
              THEN /\ memtable' = EmptyMemTable
                   /\ memtable'.currentSizeBytes = 0
                   /\ walFile' = <<>>
                   /\ IF Len(levels[1]) + 1 < level0MaxFiles
                      THEN /\ Len(levels'[1]) = Len(levels[1]) + 1
                           /\ SubSeq(levels'[1], 1, Len(levels[1])) = levels[1]
                           /\ levels'[2] = levels[2]
                           /\ sstableCounter' = sstableCounter + 1
                           /\ LET t == levels'[1][Len(levels'[1])]
                              IN  /\ t.level = 0
                                  /\ t.seq = sstableCounter
                                  /\ TableKeys(t) = flushedKeys
                                  /\ \A k \in flushedKeys :
                                        mt.data[k] \in Values => TableValue(t, k) = mt.data[k]
                                  /\ \E i \in 1..Len(dir') : dir'[i] = t
                      ELSE /\ levels'[1] = <<>>
                           /\ sstableCounter' = sstableCounter + 2
                           /\ Len(levels'[2]) = 1
                           /\ flushedKeys \subseteq TableKeys(levels'[2][1])
                           /\ \A k \in flushedKeys :
                                 mt.data[k] \in Values
                                     => TableValue(levels'[2][1], k) = mt.data[k]
              ELSE /\ memtable' = mt
                   /\ walFile' # <<>>
                   /\ levels' = levels
                   /\ dir' = dir
                   /\ sstableCounter' = sstableCounter]_vars

\* a flush at exactly the threshold (two live entries of 70 bytes) has appended
\* its table to a Level 0 that already held one
C23_Witness ==
    /\ IsWrite(last)
    /\ ~last.threw
    /\ memtableMaxSize = 140
    /\ memtable = EmptyMemTable
    /\ walFile = <<>>
    /\ Len(levels[1]) = 2
    /\ levels[1][2].seq = sstableCounter - 1
    /\ \A k \in {"a", "b"} : TableValue(levels[1][2], k) \in Values

\* C24: a flush writes every MemTable entry, tombstones included. On the table
\* a flush has just appended to levels[0], SSTableReader.get answers the
\* tombstone (not absent) for every key the MemTable held as deleted and the
\* value for every key it held live.
C24_FlushedTableHoldsTombstones ==
    [][(IsFlushStep /\ Len(levels'[1]) = Len(levels[1]) + 1) =>
          LET t == levels'[1][Len(levels'[1])]
          IN  \A k \in Keys :
                  /\ FlushedMemTable.data[k] = MEM_TOMBSTONE => SSTableGet(t, k) = TOMBSTONE
                  /\ FlushedMemTable.data[k] \in Values
                        => SSTableGet(t, k) = FlushedMemTable.data[k]]_vars

\* the string the writer stores in place of a tombstone
TombstoneString == "__TOMBSTONE__"

\* a caller whose values are the string "__TOMBSTONE__"
NextWithTombstoneString ==
    \/ \E key \in callerKeys : Set(key, TombstoneString)
    \/ \E key \in callerKeys : Delete(key)
    \/ Close
    \/ Crash
    \/ Open

SpecTombstoneString == InitWith({{"a", "b"}}, {2}) /\ [][NextWithTombstoneString]_vars

\* C25: the tombstone collides with no value a caller can store. A key whose
\* last returned write is set(k, "__TOMBSTONE__") reads back as that string and
\* is listed by range with it, also after the MemTable that held it is flushed.
C25_TombstoneStringIsAValue ==
    phase = "open" =>
        \A k \in Keys :
            lastOp[k] = TombstoneString =>
                /\ Get(k) = TombstoneString
                /\ \E i \in 1..Len(Range(k, k)) :
                      Range(k, k)[i] = [key |-> k, value |-> TombstoneString]

\* the runs of string-key writes and restarts with three caller keys, in which a
\* flushed MemTable may lack a key that two Level-0 tables hold
NextThreeKeys ==
    \/ \E key \in callerKeys, value \in Values : Set(key, value)
    \/ \E key \in callerKeys : Delete(key)
    \/ Crash

SpecThreeKeys == InitWith({Keys}, {3}) /\ [][NextThreeKeys]_vars

\* the step is a set or delete whose flush compacts Level 0
IsCompactionStep == IsFlushStep /\ sstableCounter' = sstableCounter + 2

\* the record of k in the newest input of the compaction this step runs: the
\* table just flushed, else the Level-0 table with the highest sequence number
\* that holds k, else the Level-1 table with the highest sequence number
NewestInput(k) ==
    IF FlushedMemTable.data[k] # NOT_IN_MAP THEN JsonRoundTrip(FlushedMemTable.data[k])
    ELSE IF HoldingAtLevel0(k) # {}
    THEN LET i == CHOOSE i \in HoldingAtLevel0(k) :
                      \A j \in HoldingAtLevel0(k) : levels[1][j].seq <= levels[1][i].seq
         IN  TableValue(levels[1][i], k)
    ELSE IF HoldingDeeper(k) # {}
    THEN LET i == CHOOSE i \in HoldingDeeper(k) :
                      \A j \in HoldingDeeper(k) : levels[2][j].seq <= levels[2][i].seq
         IN  TableValue(levels[2][i], k)
    ELSE NOT_IN_MAP

\* C26: a compaction keeps exactly one entry per key, the one of the newest
\* input: among the Level-0 tables the one with the higher sequence number
\* wins, and any Level-0 entry wins over the Level-1 entry of the same key.
C26_CompactionKeepsNewest ==
    [][IsCompactionStep =>
          /\ Len(levels'[2]) = 1
          /\ Len(SSTableEntries(levels'[2][1])) = Cardinality(TableKeys(levels'[2][1]))
          /\ \A k \in Keys : TableValue(levels'[2][1], k) = NewestInput(k)]_vars

\* the keys of the merged stream of the compaction this step runs: the keys of
\* the inputs whose newest record is not a tombstone dropped at the deepest level
MergedKeys ==
    {k \in Keys : /\ NewestInput(k) # NOT_IN_MAP
                  /\ ~(1 = maxLevels - 1 /\ ReadValue(NewestInput(k)) = TOMBSTONE)}

\* C27: after _compactLevel(0) with 0 < maxLevels - 1, levels[0] is empty, every
\* input file (of Level 0 and of Level 1) is gone from the directory, and
\* levels[1] holds exactly one new table, with the merged keys, when the merged
\* stream is non-empty; when it is empty no file is written and levels[1] is
\* empty.
C27_AfterCompaction ==
    [][IsCompactionStep =>
          LET inputs == {levels[1][i] : i \in 1..Len(levels[1])}
                            \cup {levels[2][j] : j \in 1..Len(levels[2])}
              files == {dir'[i] : i \in 1..Len(dir')}
          IN  /\ 0 < maxLevels - 1
              /\ levels'[1] = <<>>
              /\ inputs \cap files = {}
              /\ \A f \in files : ~(f.level = 0 /\ f.seq = sstableCounter)
              /\ IF MergedKeys # {}
                 THEN /\ Len(levels'[2]) = 1
                      /\ levels'[2][1].level = 1
                      /\ levels'[2][1].seq = sstableCounter + 1
                      /\ levels'[2][1] \in files
                      /\ TableKeys(levels'[2][1]) = MergedKeys
                 ELSE /\ levels'[2] = <<>>
                      /\ \A f \in files : f.seq # sstableCounter + 1]_vars

\* a compaction of tables that hold only dropped entries has written no file
C27_Witness ==
    /\ IsWrite(last)
    /\ ~last.threw
    /\ sstableCounter >= 2
    /\ memtable = EmptyMemTable
    /\ levels[1] = <<>>
    /\ levels[2] = <<>>
    /\ dir = <<>>

\* the MemTable of the killed write of this step, after its mutation
KilledMemTable ==
    LET record == walFile'[Len(walFile')]
    IN  IF record.op = "SET" THEN MemTableSet(memtable, record.key, record.value)
        ELSE MemTableDelete(memtable, record.key)

\* the process was killed after the flush wrote its Level-0 file and before it
\* deleted wal.log
IsKilledBeforeWalUnlink ==
    /\ last'.op = "killed"
    /\ Len(walFile') = Len(walFile) + 1
    /\ Len(dir') = Len(dir) + 1

\* C28: a kill after the new Level-0 file is written and before wal.log is
\* deleted loses nothing: after the next open every get(k) answers what it
\* answered just before the flush started, for live and deleted keys alike.
C28_KilledBeforeWalUnlink ==
    [][IsKilledBeforeWalUnlink =>
          \A k \in Keys : GetOf(memtable', levels', k) = GetOf(KilledMemTable, levels, k)]_vars

----------------------------------------------------------------------------
(* A kill inside SSTableWriter.write: the file exists, its footer does not   *)

\* level<level>_<seq>.sst as a kill between openSync(path, 'w') and the last
\* writeSync leaves it: a prefix of blocks, index, footer and footer size
PartialTable(level, seq) ==
    [level |-> level, seq |-> seq, blocks |-> <<>>,
     minKey |-> UNDEFINED, maxKey |-> UNDEFINED, entryCount |-> 0]

\* SSTableReader._loadMetadata throws on a file that does not end with a footer
\* and its size: readSync at a negative position, or JSON.parse of other bytes
LoadMetadataThrows(t) == t.entryCount = 0

\* LSMTree._recover throws when the constructor of one reader throws
RecoverThrows(files) == \E i \in 1..Len(files) : LoadMetadataThrows(files[i])

\* a set (or, with value MEM_TOMBSTONE, a delete) that flushes, the process
\* killed while the flush writes its Level-0 file; then new LSMTree(dataDir, options)
KilledInTableWrite(key, value) ==
    /\ CanWrite
    /\ ShouldFlush(MemTableSet(memtable, key, value), memtableMaxSize)
    /\ \E pos \in 0..Len(dir) :
          LET record == IF value = MEM_TOMBSTONE THEN LogDeleteRecord(key)
                        ELSE LogSetRecord(key, value)
              logged == Append(walFile, record)
              files == InsertAt(dir, pos, PartialTable(0, sstableCounter))
          IN  IF RecoverThrows(files)
              THEN /\ phase' = "failed"
                   /\ walFile' = logged
                   /\ dir' = files
                   /\ memtable' = EmptyMemTable
                   /\ levels' = [l \in 1..maxLevels |-> <<>>]
                   /\ sstableCounter' = 0
                   /\ last' = [op |-> "torn", key |-> key, threw |-> TRUE]
              ELSE /\ phase' = "recovered"
                   /\ Install(Recover(logged, files))
                   /\ last' = [op |-> "torn", key |-> key, threw |-> FALSE]
    /\ quiet' = "no"
    /\ UNCHANGED <<stream, skipList, callerKeys, maxLevels, memtableMaxSize, level0MaxFiles, lastOp>>

NextWithPartialTable ==
    \/ Next
    \/ \E key \in callerKeys, value \in Values \cup {MEM_TOMBSTONE} :
          KilledInTableWrite(key, value)

\* the runs in which the process may also be killed while a table file is written
SpecPartialTable == InitWith({{"a", "b"}}, {2}) /\ [][NextWithPartialTable]_vars

\* C29: a kill that leaves a partial level0_<seq>.sst, without a valid footer,
\* does not break recovery: the next open succeeds, no level holds the partial
\* file, and every get(k) answers from the WAL and the earlier tables, that is
\* as before the flush started.
C29_PartialTableIgnored ==
    [][last'.op = "torn" =>
          /\ ~last'.threw
          /\ phase' # "failed"
          /\ \A l \in 1..Len(levels') :
                \A i \in 1..Len(levels'[l]) : ~LoadMetadataThrows(levels'[l][i])
          /\ \A k \in Keys :
                GetOf(memtable', levels', k) = GetOf(KilledMemTable, levels, k)]_vars

\* the process was killed inside the compaction that the flush of this step's
\* write started: wal.log is already replaced
IsKilledInCompaction ==
    /\ last'.op = "killed"
    /\ walFile' = <<>>
    /\ Len(levels[1]) + 1 >= level0MaxFiles
    /\ 0 < maxLevels - 1

\* the levels after the flush of a write of value under the killed call's key,
\* before the compaction starts
LevelsBeforeCompaction(value) ==
    LET mt == MemTableSet(memtable, last'.key, value)
        flushFile == SSTableWrite(0, sstableCounter, MemTableEntries(mt))
    IN  [levels EXCEPT ![1] = Append(@, flushFile)]

\* C30: a kill at any point inside _compactLevel loses and resurrects nothing:
\* after the next open every get(k) answers what it answered before the
\* compaction started (after the flush), whichever files the kill left; in
\* particular an old Level-1 table never shadows the merged one.
C30_KilledInCompaction ==
    [][IsKilledInCompaction =>
          \A value \in Values \cup {MEM_TOMBSTONE} :
              (\E i \in 1..Len(dir') :
                  /\ dir'[i].seq >= sstableCounter
                  /\ TableValue(dir'[i], last'.key) = JsonRoundTrip(value))
              => \A k \in Keys :
                    GetOf(memtable', levels', k)
                        = GetOf(EmptyMemTable, LevelsBeforeCompaction(value), k)]_vars

\* C31: after an open (a new LSMTree on the directory, after close() or after a
\* restart), levels[0] lists the recovered Level-0 tables in ascending
\* sequence-number order, oldest first, whatever order the directory listing
\* returns the files in.
C31_RecoveredLevel0Ascending ==
    last.op \in {"open", "restart"} =>
        \A i \in 1..Len(levels[1]), j \in 1..Len(levels[1]) :
            i < j => levels[1][i].seq < levels[1][j].seq

----------------------------------------------------------------------------
(* The table writer raises (openSync or writeSync fails: disk full, no        *)
(* permission) inside a flush or inside the compaction that follows it        *)

\* a flush that replaces the MemTable and wal.log before it writes the table
FlushMemtableClearingFirst(st, failsAt, partial) ==
    LET seq == st.sstableCounter
        file == SSTableWrite(0, seq, MemTableEntries(st.memtable))
        flushed == [st EXCEPT !.sstableCounter = seq + 1,
                              !.dir = Append(@, file),
                              !.levels[1] = Append(@, file),
                              !.memtable = EmptyMemTable,
                              !.walFile = <<>>]
    IN  IF failsAt = "flush"
        THEN [st EXCEPT !.sstableCounter = seq + 1,
                        !.memtable = EmptyMemTable,
                        !.walFile = <<>>,
                        !.dir = IF partial THEN Append(@, PartialTable(0, seq)) ELSE @,
                        !.threw = TRUE]
        ELSE [flushed EXCEPT !.sstableCounter = seq + 2,
                             !.dir = IF partial THEN Append(@, PartialTable(1, seq + 1))
                                     ELSE @,
                             !.threw = TRUE]

\* LSMTree._flushMemtable when writer.write throws, in the flush itself
\* (failsAt = "flush") or in the _compactLevel(0) the flush goes on to call
\* (failsAt = "compaction"); partial tells whether the writer had created its file
FlushMemtableWriterThrows(st, failsAt, partial) ==
    LET seq == st.sstableCounter
        file == SSTableWrite(0, seq, MemTableEntries(st.memtable))
        flushed == [st EXCEPT !.sstableCounter = seq + 1,
                              !.dir = Append(@, file),
                              !.levels[1] = Append(@, file),
                              !.memtable = EmptyMemTable,
                              !.walFile = <<>>]
    IN  IF failsAt = "flush"
        THEN [st EXCEPT !.sstableCounter = seq + 1,
                        !.dir = IF partial THEN Append(@, PartialTable(0, seq)) ELSE @,
                        !.threw = TRUE]
        ELSE [flushed EXCEPT !.sstableCounter = seq + 2,
                             !.dir = IF partial THEN Append(@, PartialTable(1, seq + 1))
                                     ELSE @,
                             !.threw = TRUE]

\* a set (or, with value MEM_TOMBSTONE, a delete) of a string key whose flush, or
\* whose compaction, ends with an exception from the table writer
WriterError(key, value, failsAt, partial) ==
    /\ CanWrite
    /\ ShouldFlush(MemTableSet(memtable, key, value), memtableMaxSize)
    /\ failsAt = "compaction" =>
          (Len(levels[1]) + 1 >= level0MaxFiles /\ 0 < maxLevels - 1)
    /\ LET record == IF value = MEM_TOMBSTONE THEN LogDeleteRecord(key)
                     ELSE LogSetRecord(key, value)
           stored == [Engine EXCEPT !.walFile = Append(@, record),
                                    !.memtable = MemTableSet(@, key, value)]
       IN  Install(FlushMemtableWriterThrows(stored, failsAt, partial))
    /\ phase' = "errored"
    /\ last' = [op |-> failsAt, key |-> key, threw |-> TRUE]
    /\ quiet' = "no"
    /\ UNCHANGED <<stream, skipList, callerKeys, maxLevels, memtableMaxSize, level0MaxFiles, lastOp>>

NextWithWriterError ==
    \/ Next
    \/ \E key \in callerKeys, value \in Values \cup {MEM_TOMBSTONE},
          failsAt \in {"flush", "compaction"}, partial \in BOOLEAN :
          WriterError(key, value, failsAt, partial)

\* the runs in which a table write may fail
SpecWriterError == InitWith({{"a", "b"}}, {2}) /\ [][NextWithWriterError]_vars

----------------------------------------------------------------------------
(* A direct caller of the table writer and reader that chooses the block     *)
(* size: new SSTableWriter(path, blockSize).write(entries), then a reader     *)

\* the longest entry stream written
MaxBlockStreamLen == 3

\* the blockSize arguments explored: with 20 every entry (24, 35 or 11 bytes of
\* JSON) has a block of its own, with 48 a block takes two 24-byte entries
BlockSizeChoices == {20, 48}

BlockStreams ==
    UNION {[1..n -> [key : Keys, value : StreamValues]] : n \in 0..MaxBlockStreamLen}

\* new SSTableWriter(path, blockSize).write(entries): the directory after the call
\* and whether the call threw
WriterWriteOfSize(blockSize, files, entries) ==
    IF WriteThrows(entries)
    THEN [dir |-> files, threw |-> TRUE]
    ELSE [dir |-> <<SSTableWriteOfSize(blockSize, 0, 0, entries)>>, threw |-> FALSE]

BlockWriterInit ==
    /\ phase = "writer"
    /\ callerKeys = Keys
    /\ level0MaxFiles = 2
    /\ maxLevels = 2
    /\ memtableMaxSize = 140
    /\ walFile = <<>>
    /\ dir = <<>>
    /\ memtable = EmptyMemTable
    /\ levels = <<<<>>, <<>>>>
    /\ sstableCounter = 0
    /\ last = [op |-> "open", key |-> NULL_KEY, threw |-> FALSE]
    /\ lastOp = [k \in Keys |-> "none"]
    /\ stream \in BlockStreams
    /\ skipList = EmptySkipList
    /\ quiet = "no"

\* new SSTableWriter(path, blockSize).write(stream)
WriteTableOfSize(blockSize) ==
    /\ phase = "writer"
    /\ last.op = "open"
    /\ \E r \in {WriterWriteOfSize(blockSize, dir, stream)} :
           /\ dir' = r.dir
           /\ last' = [op |-> "write", key |-> NULL_KEY, threw |-> r.threw,
                       blockSize |-> blockSize]
    /\ UNCHANGED <<skipList, phase, callerKeys, maxLevels, memtableMaxSize, level0MaxFiles, walFile,
                   memtable, levels, sstableCounter, lastOp, stream, quiet>>

SpecBlockWriter ==
    BlockWriterInit /\ [][\E blockSize \in BlockSizeChoices : WriteTableOfSize(blockSize)]_vars

\* the value a reader has to answer for a value of the entry stream
StoredValue(v) == IF IsSymbol(v) THEN TOMBSTONE ELSE v

\* C33: SSTableReader.get is complete and sound for a table written from a
\* key-ascending stream: it answers the stored value (the tombstone for a
\* deletion) for every key of the stream, whichever block holds it, and absent
\* for every key that is not in the stream.
C33_ReaderGetCompleteAndSound ==
    (last.op = "write" /\ ~last.threw /\ IsAscending(stream)) =>
        \A k \in Keys :
            IF \E i \in 1..Len(stream) : stream[i].key = k
            THEN \E i \in 1..Len(stream) :
                    stream[i].key = k /\ SSTableGet(dir[1], k) = StoredValue(stream[i].value)
            ELSE SSTableGet(dir[1], k) = UNDEFINED

\* C34: SSTableReader.range(lo, hi) on a table written from a key-ascending
\* stream returns exactly the table's entries with lo <= key <= hi, in ascending
\* key order, for every lo and hi: lo below minKey, lo in a gap between blocks,
\* lo = hi on a key of the table or not, and lo > hi (empty result).
C34_ReaderRangeExact ==
    (last.op = "write" /\ ~last.threw /\ IsAscending(stream)) =>
        \A lo \in Keys, hi \in Keys :
            /\ SSTableRange(dir[1], lo, hi)
                 = SelectSeq(SSTableEntries(dir[1]),
                             LAMBDA e : KeyLE(lo, e.key) /\ KeyLE(e.key, hi))
            /\ IsAscending(SSTableRange(dir[1], lo, hi))
            /\ KeyLT(hi, lo) => SSTableRange(dir[1], lo, hi) = <<>>

\* a table of three one-entry blocks has been written, so that range("a", "b")
\* starts inside the table and crosses a block boundary
C34_Witness ==
    /\ last.op = "write"
    /\ ~last.threw
    /\ IsAscending(stream)
    /\ Len(stream) = 3
    /\ Len(dir[1].blocks) = 3
    /\ Len(SSTableRange(dir[1], "a", "b")) = 2

\* the sum of the estimated sizes of the first n entries of a block
RECURSIVE BlockEntriesSize(_, _)
BlockEntriesSize(block, n) ==
    IF n = 0 THEN 0 ELSE BlockEntriesSize(block, n - 1) + EstimateEntrySize(block[n])

\* SSTableWriter._finalizeBlock: data.length, the bytes of JSON.stringify(entries)
\* (brackets, the entries, a comma between two entries)
BlockDataLength(block) == 2 + BlockEntriesSize(block, Len(block)) + (Len(block) - 1)

\* SSTableWriter.write: the index entries of the first n blocks, each offset the
\* running currentOffset
RECURSIVE IndexEntries(_, _)
IndexEntries(blocks, n) ==
    IF n = 0 THEN <<>>
    ELSE LET before == IndexEntries(blocks, n - 1)
             currentOffset == IF n = 1 THEN 0
                              ELSE before[n - 1].offset + before[n - 1].size
         IN  Append(before, [startKey |-> blocks[n][1].key,
                             endKey |-> blocks[n][Len(blocks[n])].key,
                             offset |-> currentOffset,
                             size |-> BlockDataLength(blocks[n])])

\* SSTableWriter.write: footer.indexOffset, currentOffset after the last block
IndexOffset(blocks) ==
    LET index == IndexEntries(blocks, Len(blocks))
    IN  index[Len(blocks)].offset + index[Len(blocks)].size

\* the entries of the first n blocks, one after the other
RECURSIVE ConcatBlocks(_, _)
ConcatBlocks(blocks, n) ==
    IF n = 0 THEN <<>> ELSE ConcatBlocks(blocks, n - 1) \o blocks[n]

\* the byte sizes of the first n blocks, added up
RECURSIVE SumOfBlockSizes(_, _)
SumOfBlockSizes(blocks, n) ==
    IF n = 0 THEN 0 ELSE SumOfBlockSizes(blocks, n - 1) + BlockDataLength(blocks[n])

\* C35: the writer partitions its input into blocks without loss or
\* reordering: every block is non-empty; the blocks one after the other are the
\* input stream as JSON stores it; a block is closed only when the next entry
\* would take it past blockSize, so that a block of several entries is within
\* blockSize and an entry larger than blockSize has a block of its own; each
\* index entry's offset is the sum of the byte sizes of the blocks before it,
\* and indexOffset is the sum of all block sizes.
C35_BlocksPartitionTheStream ==
    (last.op = "write" /\ ~last.threw) =>
        LET blocks == dir[1].blocks
            index == IndexEntries(blocks, Len(blocks))
        IN  /\ \A b \in 1..Len(blocks) : Len(blocks[b]) > 0
            /\ ConcatBlocks(blocks, Len(blocks))
                 = [i \in 1..Len(stream) |->
                       [key |-> stream[i].key,
                        value |-> IF stream[i].value = TOMBSTONE THEN "__TOMBSTONE__"
                                  ELSE JsonRoundTrip(stream[i].value)]]
            /\ \A b \in 1..(Len(blocks) - 1) :
                  BlockEntriesSize(blocks[b], Len(blocks[b]))
                      + EstimateEntrySize(blocks[b + 1][1]) > last.blockSize
            /\ \A b \in 1..Len(blocks) :
                  \/ BlockEntriesSize(blocks[b], Len(blocks[b])) <= last.blockSize
                  \/ Len(blocks[b]) = 1
            /\ \A b \in 1..Len(blocks) :
                  /\ index[b].offset = SumOfBlockSizes(blocks, b - 1)
                  /\ index[b].size = BlockDataLength(blocks[b])
            /\ IndexOffset(blocks) = SumOfBlockSizes(blocks, Len(blocks))

\* a stream of three 24-byte entries has been written with blockSize 48: a
\* block of two entries that fills blockSize exactly, then a block of one
C35_Witness ==
    /\ last.op = "write"
    /\ ~last.threw
    /\ last.blockSize = 48
    /\ Len(dir[1].blocks) = 2
    /\ Len(dir[1].blocks[1]) = 2
    /\ BlockEntriesSize(dir[1].blocks[1], 2) = 48
    /\ IndexEntries(dir[1].blocks, 2)[2].offset = 51

----------------------------------------------------------------------------
(* A direct caller of the MemTable, as the demo of step3/memtable.js: set and *)
(* delete on one MemTable that is never flushed                               *)

\* calls are made while the size estimate is within this many bytes
MaxMemTableBytes == 300

MemTableInit ==
    /\ phase = "memtable"
    /\ callerKeys = Keys
    /\ level0MaxFiles = 2
    /\ maxLevels = 2
    /\ memtableMaxSize = 140
    /\ walFile = <<>>
    /\ dir = <<>>
    /\ memtable = EmptyMemTable
    /\ levels = <<<<>>, <<>>>>
    /\ sstableCounter = 0
    /\ last = [op |-> "open", key |-> NULL_KEY, threw |-> FALSE]
    /\ lastOp = [k \in Keys |-> "none"]
    /\ stream = <<>>
    /\ skipList = EmptySkipList
    /\ quiet = "no"

\* memtable.set(key, value)
MemTableSetCall(key, value) ==
    /\ phase = "memtable"
    /\ memtable.currentSizeBytes <= MaxMemTableBytes
    /\ memtable' = MemTableSet(memtable, key, value)
    /\ last' = [op |-> "set", key |-> key, threw |-> FALSE]
    /\ lastOp' = [lastOp EXCEPT ![key] = value]
    /\ UNCHANGED <<skipList, phase, callerKeys, maxLevels, memtableMaxSize, level0MaxFiles, walFile,
                   dir, levels, sstableCounter, stream, quiet>>

\* memtable.delete(key)
MemTableDeleteCall(key) ==
    /\ phase = "memtable"
    /\ memtable.currentSizeBytes <= MaxMemTableBytes
    /\ memtable' = MemTableDelete(memtable, key)
    /\ last' = [op |-> "delete", key |-> key, threw |-> FALSE]
    /\ lastOp' = [lastOp EXCEPT ![key] = "deleted"]
    /\ UNCHANGED <<skipList, phase, callerKeys, maxLevels, memtableMaxSize, level0MaxFiles, walFile,
                   dir, levels, sstableCounter, stream, quiet>>

NextMemTable ==
    \/ \E key \in Keys, value \in Values : MemTableSetCall(key, value)
    \/ \E key \in Keys : MemTableDeleteCall(key)

SpecMemTable == MemTableInit /\ [][NextMemTable]_vars

\* the estimated sizes of the entries of keys, added up
RECURSIVE SumOfEstimates(_, _)
SumOfEstimates(data, keys) ==
    IF keys = {} THEN 0
    ELSE LET k == CHOOSE k \in keys : TRUE
         IN  EstimateSize(k, data[k]) + SumOfEstimates(data, keys \ {k})

\* C36: MemTable size accounting. After every sequence of MemTable.set and
\* MemTable.delete calls, currentSizeBytes is the sum of the estimated sizes of
\* the entries held, one per key with its latest value or tombstone: writing a
\* key again replaces its contribution.
C36_SizeIsSumOfEntries ==
    /\ memtable.currentSizeBytes
         = SumOfEstimates(memtable.data, {k \in Keys : memtable.data[k] # NOT_IN_MAP})
    /\ phase = "memtable" =>
          \A k \in Keys :
              memtable.data[k] = (IF lastOp[k] = "none" THEN NOT_IN_MAP
                                  ELSE IF lastOp[k] = "deleted" THEN MEM_TOMBSTONE
                                  ELSE lastOp[k])

\* three keys are held, one of them as a tombstone: 74 + 70 + 70 bytes
C36_Witness ==
    /\ phase = "memtable"
    /\ memtable.data["a"] = MEM_TOMBSTONE
    /\ memtable.data["b"] \in Values
    /\ memtable.data["B"] \in Values
    /\ memtable.currentSizeBytes = 214

----------------------------------------------------------------------------
(* A direct caller of step3/skiplist.js *)

SkipListInit ==
    /\ phase = "skiplist"
    /\ callerKeys = Keys
    /\ level0MaxFiles = 2
    /\ maxLevels = 2
    /\ memtableMaxSize = 140
    /\ walFile = <<>>
    /\ dir = <<>>
    /\ memtable = EmptyMemTable
    /\ levels = <<<<>>, <<>>>>
    /\ sstableCounter = 0
    /\ last = [op |-> "open", key |-> NULL_KEY, threw |-> FALSE]
    /\ lastOp = [k \in Keys |-> "none"]
    /\ stream = <<>>
    /\ skipList = EmptySkipList
    /\ quiet = "no"

\* list.set(key, value), with the height _randomLevel() draws for a new node
SkipListSetCall(key, value, newLevel) ==
    /\ phase = "skiplist"
    /\ skipList' = SkipListNodeSet(skipList, key, value, newLevel)
    /\ last' = [op |-> "set", key |-> key, threw |-> FALSE]
    /\ lastOp' = [lastOp EXCEPT ![key] = value]
    /\ UNCHANGED <<phase, callerKeys, maxLevels, memtableMaxSize, level0MaxFiles, walFile,
                   dir, memtable, levels, sstableCounter, stream, quiet>>

\* list.delete(key)
SkipListDeleteCall(key) ==
    /\ phase = "skiplist"
    /\ skipList' = SkipListNodeDelete(skipList, key).list
    /\ last' = [op |-> "delete", key |-> key,
                threw |-> FALSE, returned |-> SkipListNodeDelete(skipList, key).returned]
    /\ lastOp' = [lastOp EXCEPT ![key] = "deleted"]
    /\ UNCHANGED <<phase, callerKeys, maxLevels, memtableMaxSize, level0MaxFiles, walFile,
                   dir, memtable, levels, sstableCounter, stream, quiet>>

NextSkipList ==
    \/ \E key \in Keys, value \in Values, newLevel \in 1..SkipListMaxLevel :
           SkipListSetCall(key, value, newLevel)
    \/ \E key \in Keys : SkipListDeleteCall(key)

SpecSkipList == SkipListInit /\ [][NextSkipList]_vars

\* the keys a caller has set and not deleted since
KeysHeld == {k \in Keys : lastOp[k] \in Values}

\* the entries of a sequence whose keys lie in [startKey, endKey]
EntriesWithin(entries, startKey, endKey) ==
    SelectSeq(entries, LAMBDA e : KeyLE(startKey, e.key) /\ KeyLE(e.key, endKey))

\* C37: SkipList is an ordered map whatever heights its nodes draw. After any
\* sequence of set and delete calls, iterating the list yields strictly
\* ascending keys, exactly the keys set and not deleted since, each with the
\* value last set; get(k) returns that value, or undefined for any other key;
\* size is the number of entries; and range(lo, hi) is the part of the
\* iteration with lo <= key <= hi.
C37_SkipListIsAnOrderedMap ==
    phase = "skiplist" =>
        LET entries == SkipListIterator(skipList)
        IN  /\ IsAscending(entries)
            /\ {entries[i].key : i \in 1..Len(entries)} = KeysHeld
            /\ \A i \in 1..Len(entries) : entries[i].value = lastOp[entries[i].key]
            /\ \A k \in Keys :
                   SkipListNodeGet(skipList, k)
                     = (IF k \in KeysHeld THEN lastOp[k] ELSE UNDEFINED)
            /\ skipList.size = Cardinality(KeysHeld)
            /\ \A startKey \in Keys, endKey \in Keys :
                   SkipListNodeRange(skipList, startKey, endKey)
                     = EntriesWithin(entries, startKey, endKey)

\* delete("a") has found and unlinked the node between two others of heights
\* 2 and 1, which iteration still yields in order
C37_Witness ==
    /\ phase = "skiplist"
    /\ last = [op |-> "delete", key |-> "a", threw |-> FALSE, returned |-> TRUE]
    /\ skipList.size = 2
    /\ skipList.level = 2
    /\ Len(skipList.nodes["B"].forward) = 2
    /\ Len(skipList.nodes["b"].forward) = 1
    /\ Len(SkipListIterator(skipList)) = 2

----------------------------------------------------------------------------
(* Reorganisation and reads *)

\* C38: internal reorganisation is invisible to reads. For every key, get
\* answers right after _flushMemtable (with the compaction it may run) what it
\* answered right before it, on the MemTable that is flushed; and range
\* likewise for all bounds.
C38_ReorganisationInvisible ==
    [][IsFlushStep =>
          /\ \A k \in Keys :
                 GetOf(memtable', levels', k) = GetOf(FlushedMemTable, levels, k)
          /\ \A startKey \in Keys, endKey \in Keys :
                 RangeOf(memtable', levels', startKey, endKey)
                   = RangeOf(FlushedMemTable, levels, startKey, endKey)]_vars

\* C39: Level 0 stays bounded. Whenever a set or delete has returned in a
\* session that started on an empty directory (maxLevels >= 2), levels[0]
\* holds fewer than level0MaxFiles tables: the flush that brings the count to
\* level0MaxFiles compacts Level 0 before the call returns.
C39_Level0Bounded ==
    (phase = "open" /\ IsWrite(last) /\ ~last.threw) => Len(levels[1]) < level0MaxFiles

\* the third flush of a session with level0MaxFiles = 3 has compacted Level 0
\* before the write returned
C39_Witness ==
    /\ phase = "open"
    /\ IsWrite(last) /\ ~last.threw
    /\ level0MaxFiles = 3
    /\ sstableCounter = 4
    /\ levels[1] = <<>>
    /\ Len(levels[2]) = 1
    /\ memtable = EmptyMemTable

----------------------------------------------------------------------------
(* An engine of three levels *)

\* the state after new LSMTree(dataDir, {maxLevels: 3, ...}) on an empty directory
InitThreeLevels ==
    /\ phase = "open"
    /\ callerKeys = {"a", "b"}
    /\ level0MaxFiles = 2
    /\ maxLevels = 3
    /\ memtableMaxSize \in MemtableMaxSizes
    /\ walFile = <<>>
    /\ dir = <<>>
    /\ memtable = EmptyMemTable
    /\ levels = [l \in 1..3 |-> <<>>]
    /\ sstableCounter = 0
    /\ last = [op |-> "open", key |-> NULL_KEY, threw |-> FALSE]
    /\ lastOp = [k \in Keys |-> "none"]
    /\ stream = <<>>
    /\ skipList = EmptySkipList
    /\ quiet = "opened"

\* a caller that sets, deletes, closes and reopens, and is never killed; among
\* its values is the string the reader takes for a tombstone
NextWithoutCrash ==
    \/ \E key \in callerKeys, value \in {"v1", TombstoneString} : Set(key, value)
    \/ \E key \in callerKeys : Delete(key)
    \/ Close
    \/ Open

SpecThreeLevels == InitThreeLevels /\ [][NextWithoutCrash]_vars

\* C40: only Level 0 is ever compacted. In every state reached by set, delete,
\* close and open without a crash, every level from 2 on is empty and Level 1
\* holds at most one table, and _compactLevel(maxLevels - 1) would change
\* nothing; so with maxLevels > 2 every compaction keeps every key of its
\* inputs with its newest record, the tombstones among them.
C40_OnlyLevel0Compacted ==
    /\ [](/\ \A l \in 3..maxLevels : levels[l] = <<>>
          /\ Len(levels[2]) <= 1
          /\ \A pos \in 0..Len(dir) : CompactLevel(Engine, maxLevels - 1, pos) = Engine)
    /\ [][(maxLevels > 2 /\ IsCompactionStep) =>
             /\ Len(levels'[2]) = 1
             /\ \A k \in Keys :
                    TableValue(levels'[2][1], k) = ReadValue(NewestInput(k))]_vars

\* the second compaction of an engine of three levels has merged the Level-1
\* table of the first, and the merged table still holds a tombstone
C40_Witness ==
    /\ maxLevels = 3
    /\ IsWrite(last) /\ ~last.threw
    /\ sstableCounter = 6
    /\ levels[1] = <<>>
    /\ Len(levels[2]) = 1
    /\ levels[3] = <<>>
    /\ \E k \in Keys : TableValue(levels[2][1], k) = TOMBSTONE

====
